---- MODULE Spec2Model ----
(***************************************************************************)
(* BlockBlaster game-state core: grid and placement, clear detection,      *)
(* scoring and combo state machine, clear-flash and return timers, game    *)
(* flow (MENU / PLAY / GAMEOVER), high-score table and its persistence.    *)
(*                                                                         *)
(* Conventions                                                             *)
(*  - a cell is <<x, y>> (column, row); grid.occ[y][x] is "<<x,y>> \in     *)
(*    grid";                                                               *)
(*  - times are integers in units of 1/1500 s (0.22 s = 330, 1/30 s = 50); *)
(*  - the float multiplier only ever holds whole values 0..20 and is an    *)
(*    integer here; roundf(subtotal * mult) is then exact;                 *)
(*  - a name is a sequence of one-character strings;                       *)
(*  - a persisted text file is Absent or the sequence of its               *)
(*    whitespace-separated tokens, which is what fscanf sees.              *)
(***************************************************************************)
EXTENDS Integers, Sequences, FiniteSets, TLC

(***************************************************************************)
(* Program constants (blockblaster_context.h)                              *)
(***************************************************************************)
SCORE_PER_PLACED_CELL == 1
SCORE_PER_CLEARED_CELL == 10
SCORE_PER_LINE_BONUS == 25
SCORE_MULTI_LINE_BONUS == 50
MAX_MULTIPLIER == 20
MAX_HIGH_SCORES == 5
MAX_PLAYER_NAME_LEN == 5
SHAPE_MAX == 5
COMBO_MISS_LIMIT == 3
\* 0.22 s and 1/30 s in units of 1/1500 s
CLEAR_FLASH_TIME == 330
RETURN_TIME == 330
DT == 50
\* grid side and tray count stored for an entry read in the legacy format
LEGACY_GRID == 10
LEGACY_TRAY == 4

STATE_MENU == "MENU"
STATE_PLAY == "PLAY"
STATE_GAMEOVER == "GAMEOVER"

(***************************************************************************)
(* Bounds of the model                                                     *)
(***************************************************************************)
\* the two grid sides the grid-size setting cycles through (10/15/20 in the
\* program, scaled down so that the grid can be enumerated)
GridSizeA == 1
GridSizeB == 2
\* largest tray count the tray setting cycles through (4 in the program)
MaxTray == 2
\* pieces are picked up from the tray only while score is below this cap
PlayScore == 100
SessionScore == 2
\* keys pressed in the name field at one game over
MaxKeys == 1
\* games started in one run of the program: with every input (Spec), and
\* without exit dialog and drawing halt (SpecSession)
PlayGames == 1
SessionGames == 2
\* letters typed into the name field come from the first MaxLetters of Alphabet
MaxLetters == 1

Alphabet == <<"A", "B", "C">>
Letters == {Alphabet[i] : i \in 1..MaxLetters}
PLAYR == <<"P", "L", "A", "Y", "R">>
GridSizes == {GridSizeA, GridSizeB}

Max(a, b) == IF a >= b THEN a ELSE b
Min(a, b) == IF a <= b THEN a ELSE b

(***************************************************************************)
(* Shape table (blockblaster_shapes.h), index 0 .. SHAPES_COUNT-1          *)
(***************************************************************************)
ShapeTable ==
  <<
    [w |-> 1, h |-> 1, cells |-> {<<0,0>>}],   \* 0 1
    [w |-> 1, h |-> 1, cells |-> {<<0,0>>}],   \* 1 1
    [w |-> 1, h |-> 1, cells |-> {<<0,0>>}],   \* 2 1
    [w |-> 1, h |-> 1, cells |-> {<<0,0>>}],   \* 3 1
    [w |-> 2, h |-> 1, cells |-> {<<0,0>>, <<1,0>>}],   \* 4 I2
    [w |-> 2, h |-> 1, cells |-> {<<0,0>>, <<1,0>>}],   \* 5 I2
    [w |-> 2, h |-> 1, cells |-> {<<0,0>>, <<1,0>>}],   \* 6 I2
    [w |-> 2, h |-> 1, cells |-> {<<0,0>>, <<1,0>>}],   \* 7 I2
    [w |-> 1, h |-> 2, cells |-> {<<0,0>>, <<0,1>>}],   \* 8 V2
    [w |-> 1, h |-> 2, cells |-> {<<0,0>>, <<0,1>>}],   \* 9 V2
    [w |-> 1, h |-> 2, cells |-> {<<0,0>>, <<0,1>>}],   \* 10 V2
    [w |-> 1, h |-> 2, cells |-> {<<0,0>>, <<0,1>>}],   \* 11 V2
    [w |-> 3, h |-> 1, cells |-> {<<0,0>>, <<1,0>>, <<2,0>>}],   \* 12 I3
    [w |-> 3, h |-> 1, cells |-> {<<0,0>>, <<1,0>>, <<2,0>>}],   \* 13 I3
    [w |-> 3, h |-> 1, cells |-> {<<0,0>>, <<1,0>>, <<2,0>>}],   \* 14 I3
    [w |-> 3, h |-> 1, cells |-> {<<0,0>>, <<1,0>>, <<2,0>>}],   \* 15 I3
    [w |-> 1, h |-> 3, cells |-> {<<0,0>>, <<0,1>>, <<0,2>>}],   \* 16 V3
    [w |-> 1, h |-> 3, cells |-> {<<0,0>>, <<0,1>>, <<0,2>>}],   \* 17 V3
    [w |-> 1, h |-> 3, cells |-> {<<0,0>>, <<0,1>>, <<0,2>>}],   \* 18 V3
    [w |-> 1, h |-> 3, cells |-> {<<0,0>>, <<0,1>>, <<0,2>>}],   \* 19 V3
    [w |-> 2, h |-> 2, cells |-> {<<0,0>>, <<1,1>>}],   \* 20 D\2
    [w |-> 2, h |-> 2, cells |-> {<<0,0>>, <<1,1>>}],   \* 21 D\2
    [w |-> 2, h |-> 2, cells |-> {<<1,0>>, <<0,1>>}],   \* 22 D/2
    [w |-> 2, h |-> 2, cells |-> {<<1,0>>, <<0,1>>}],   \* 23 D/2
    [w |-> 2, h |-> 2, cells |-> {<<0,0>>, <<0,1>>, <<1,1>>}],   \* 24 L2
    [w |-> 2, h |-> 2, cells |-> {<<1,0>>, <<0,1>>, <<1,1>>}],   \* 25 J2
    [w |-> 2, h |-> 2, cells |-> {<<0,0>>, <<1,0>>, <<0,1>>, <<1,1>>}],   \* 26 O2
    [w |-> 3, h |-> 2, cells |-> {<<0,0>>, <<0,1>>, <<1,1>>, <<2,1>>}],   \* 27 L3a
    [w |-> 2, h |-> 3, cells |-> {<<0,0>>, <<1,0>>, <<0,1>>, <<0,2>>}],   \* 28 L3b
    [w |-> 3, h |-> 2, cells |-> {<<2,0>>, <<0,1>>, <<1,1>>, <<2,1>>}],   \* 29 J3a
    [w |-> 2, h |-> 3, cells |-> {<<0,0>>, <<1,0>>, <<1,1>>, <<1,2>>}],   \* 30 J3b
    [w |-> 3, h |-> 2, cells |-> {<<0,0>>, <<1,0>>, <<2,0>>, <<1,1>>}],   \* 31 T
    [w |-> 3, h |-> 2, cells |-> {<<1,0>>, <<0,1>>, <<1,1>>, <<2,1>>}],   \* 32 T_flip
    [w |-> 2, h |-> 3, cells |-> {<<1,0>>, <<0,1>>, <<1,1>>, <<1,2>>}],   \* 33 T_left
    [w |-> 2, h |-> 3, cells |-> {<<0,0>>, <<0,1>>, <<1,1>>, <<0,2>>}],   \* 34 T_right
    [w |-> 3, h |-> 2, cells |-> {<<0,0>>, <<1,0>>, <<1,1>>, <<2,1>>}],   \* 35 S
    [w |-> 2, h |-> 3, cells |-> {<<1,0>>, <<0,1>>, <<1,1>>, <<0,2>>}],   \* 36 SV
    [w |-> 3, h |-> 2, cells |-> {<<1,0>>, <<2,0>>, <<0,1>>, <<1,1>>}],   \* 37 Z
    [w |-> 2, h |-> 3, cells |-> {<<0,0>>, <<0,1>>, <<1,1>>, <<1,2>>}],   \* 38 ZV
    [w |-> 3, h |-> 2, cells |-> {<<0,0>>, <<1,0>>, <<2,0>>, <<0,1>>}],   \* 39 C3a
    [w |-> 3, h |-> 2, cells |-> {<<0,0>>, <<1,0>>, <<2,0>>, <<2,1>>}],   \* 40 C3c
    [w |-> 4, h |-> 1, cells |-> {<<0,0>>, <<1,0>>, <<2,0>>, <<3,0>>}],   \* 41 I4
    [w |-> 1, h |-> 4, cells |-> {<<0,0>>, <<0,1>>, <<0,2>>, <<0,3>>}],   \* 42 V4
    [w |-> 3, h |-> 3, cells |-> {<<0,0>>, <<0,1>>, <<0,2>>, <<1,2>>, <<2,2>>}],   \* 43 L4
    [w |-> 3, h |-> 3, cells |-> {<<2,0>>, <<2,1>>, <<0,2>>, <<1,2>>, <<2,2>>}],   \* 44 J4
    [w |-> 3, h |-> 3, cells |-> {<<0,0>>, <<1,0>>, <<2,0>>, <<1,1>>, <<1,2>>}],   \* 45 T4
    [w |-> 3, h |-> 3, cells |-> {<<1,0>>, <<1,1>>, <<0,2>>, <<1,2>>, <<2,2>>}],   \* 46 T4R
    [w |-> 3, h |-> 2, cells |-> {<<0,0>>, <<2,0>>, <<0,1>>, <<1,1>>, <<2,1>>}],   \* 47 U3x2
    [w |-> 3, h |-> 2, cells |-> {<<0,0>>, <<1,0>>, <<2,0>>, <<0,1>>, <<2,1>>}],   \* 48 U3x2_flip
    [w |-> 2, h |-> 3, cells |-> {<<0,0>>, <<1,0>>, <<0,1>>, <<0,2>>, <<1,2>>}],   \* 49 U2x3_right
    [w |-> 2, h |-> 3, cells |-> {<<0,0>>, <<1,0>>, <<1,1>>, <<0,2>>, <<1,2>>}],   \* 50 U2x3_left
    [w |-> 3, h |-> 2, cells |-> {<<0,0>>, <<1,0>>, <<2,0>>, <<0,1>>, <<1,1>>, <<2,1>>}],   \* 51 R3x2
    [w |-> 2, h |-> 3, cells |-> {<<0,0>>, <<1,0>>, <<0,1>>, <<1,1>>, <<0,2>>, <<1,2>>}],   \* 52 R2x3
    [w |-> 3, h |-> 3, cells |-> {<<1,0>>, <<0,1>>, <<1,1>>, <<2,1>>, <<1,2>>}],   \* 53 Plus
    [w |-> 3, h |-> 3, cells |-> {<<0,0>>, <<1,0>>, <<2,0>>, <<0,1>>, <<1,1>>, <<2,1>>, <<0,2>>, <<1,2>>, <<2,2>>}],   \* 54 O3
    [w |-> 3, h |-> 3, cells |-> {<<0,0>>, <<1,1>>, <<2,2>>}],   \* 55 D\3
    [w |-> 3, h |-> 3, cells |-> {<<2,0>>, <<1,1>>, <<0,2>>}],   \* 56 D/3
    [w |-> 5, h |-> 1, cells |-> {<<0,0>>, <<1,0>>, <<2,0>>, <<3,0>>, <<4,0>>}],   \* 57 I5
    [w |-> 1, h |-> 5, cells |-> {<<0,0>>, <<0,1>>, <<0,2>>, <<0,3>>, <<0,4>>}],   \* 58 V5
    [w |-> 4, h |-> 4, cells |-> {<<0,0>>, <<1,1>>, <<2,2>>, <<3,3>>}],   \* 59 D\4
    [w |-> 4, h |-> 4, cells |-> {<<3,0>>, <<2,1>>, <<1,2>>, <<0,3>>}]   \* 60 D/4
  >>
SHAPES_COUNT == Len(ShapeTable)
SHAPES == [i \in 0..(SHAPES_COUNT - 1) |-> ShapeTable[i + 1]]
\* shape indices the model's random source picks from: dot, D\2
DrawIndices == {0, 20}

\* size of the shuffle bag (24 in the program)
BAG_SIZE == 3

(***************************************************************************)
(* State                                                                   *)
(***************************************************************************)
VARIABLES
  \* globals of blockblaster_game.c
  GRID_W, GRID_H, PIECES_PER_SET,
  \* GameContext: session
  state, grid, tray,
  score, high_score, combo, highest_combo, last_move_mult, combo_miss,
  \* GameContext: high-score table and name entry
  high_scores, player_name, last_player_name, editing_name, name_cursor,
  \* GameContext: drag and preview
  dragging, dragging_index, mouse, grab, can_drop_preview, preview_cell,
  \* GameContext: predicted clear (the flagged rows and columns as sets)
  pred_full_row, pred_full_col, has_predicted_clear,
  \* GameContext: clear flash and return-to-tray animation
  clearing, clear_t, pending_clear, returning, return_index, return_t,
  \* GameContext: bag cursor, exit dialog, settings
  bag_len, bag_pos, confirm_exit, setting_tray_count, setting_grid_size,
  \* persisted records
  scores_file, legacy_file, name_file,
  \* history: the last game operation with its inputs and result, ticks
  \* since the clear flash began, games started in this run, keys pressed in
  \* the name field at this game over, calls made so far (function-level
  \* specifications), the highest score reached in this run
  call, flash_ticks, games, keys, steps, session_best

globalVars == <<GRID_W, GRID_H, PIECES_PER_SET>>
scoreVars == <<score, high_score, combo, highest_combo, last_move_mult, combo_miss>>
nameVars == <<player_name, last_player_name, editing_name, name_cursor>>
dragVars == <<dragging, dragging_index, mouse, grab, can_drop_preview, preview_cell,
              pred_full_row, pred_full_col, has_predicted_clear>>
clearVars == <<clearing, clear_t, pending_clear, flash_ticks>>
returnVars == <<returning, return_index, return_t>>
bagVars == <<bag_len, bag_pos>>
settingVars == <<setting_tray_count, setting_grid_size>>
fileVars == <<scores_file, legacy_file, name_file>>
budgetVars == <<games, keys, steps, session_best>>
vars == <<globalVars, state, grid, tray, scoreVars, high_scores, nameVars,
          dragVars, clearVars, returnVars, bagVars, confirm_exit, settingVars,
          fileVars, call, budgetVars>>

(***************************************************************************)
(* Grid engine.  The functions read the globals GRID_W and GRID_H; here    *)
(* they are the parameters W and H, so that start_game can apply them with *)
(* the dimensions it has just set.                                         *)
(***************************************************************************)
Cols(W) == 0..(W - 1)
Rows(H) == 0..(H - 1)
CellsOf(W, H) == {<<x, y>> : x \in Cols(W), y \in Rows(H)}
Cells == CellsOf(GRID_W, GRID_H)

\* blockblaster_shape_cell
shape_cell(s, x, y) ==
  IF x < 0 \/ y < 0 \/ x >= s.w \/ y >= s.h THEN FALSE ELSE <<x, y>> \in s.cells

\* the filled cells of s, as the sx/sy loops of the callers visit them
FilledCells(s) ==
  {c \in {<<sx, sy>> : sx \in 0..(s.w - 1), sy \in 0..(s.h - 1)} :
     shape_cell(s, c[1], c[2])}

\* can_place_at without the test x < 0: a cell left of column 0 passes
can_place_at_no_left(W, H, g, s, gx, gy) ==
  \A c \in FilledCells(s) :
    LET x == gx + c[1]
        y == gy + c[2]
    IN  /\ ~(y < 0 \/ x >= W \/ y >= H)
        /\ <<x, y>> \notin g

\* blockblaster_can_place_at
can_place_at(W, H, g, s, gx, gy) ==
  \A c \in FilledCells(s) :
    LET x == gx + c[1]
        y == gy + c[2]
    IN  /\ ~(x < 0 \/ y < 0 \/ x >= W \/ y >= H)
        /\ <<x, y>> \notin g

\* blockblaster_any_valid_placement
any_valid_placement(W, H, g, s) ==
  \E gy \in Rows(H) : \E gx \in Cols(W) : can_place_at(W, H, g, s, gx, gy)

\* blockblaster_place_shape
place_shape(W, H, g, s, gx, gy) ==
  g \cup {c \in {<<gx + f[1], gy + f[2]>> : f \in FilledCells(s)} :
            c[1] >= 0 /\ c[2] >= 0 /\ c[1] < W /\ c[2] < H}

\* is_row_full, is_col_full
is_row_full(W, g, y) == \A x \in Cols(W) : <<x, y>> \in g
is_col_full(H, g, x) == \A y \in Rows(H) : <<x, y>> \in g

\* build_clear_mask that counts a full row and a full column of the same
\* index as one line
build_clear_mask_merged(W, H, g) ==
  LET full_row == {y \in Rows(H) : is_row_full(W, g, y)}
      full_col == {x \in Cols(W) : is_col_full(H, g, x)}
  IN  [lines |-> Cardinality(full_row \cup full_col),
       mask |-> {c \in CellsOf(W, H) : c[2] \in full_row \/ c[1] \in full_col}]

\* blockblaster_build_clear_mask: [lines, mask]
build_clear_mask(W, H, g) ==
  LET full_row == {y \in Rows(H) : is_row_full(W, g, y)}
      full_col == {x \in Cols(W) : is_col_full(H, g, x)}
  IN  [lines |-> Cardinality(full_row) + Cardinality(full_col),
       mask |-> {c \in CellsOf(W, H) : c[2] \in full_row \/ c[1] \in full_col}]

\* blockblaster_count_cells_in_mask
count_cells_in_mask(W, H, g, mask) ==
  Cardinality({c \in CellsOf(W, H) : c \in mask /\ c \in g})

\* apply_clear_mask that empties the grid whenever some cell is flagged
apply_clear_mask_all(W, H, g, mask) ==
  IF mask \cap CellsOf(W, H) = {} THEN g ELSE g \ CellsOf(W, H)

\* apply_clear_mask that leaves the flagged cells occupied
apply_clear_mask_none(W, H, g, mask) == g

\* blockblaster_apply_clear_mask
apply_clear_mask(W, H, g, mask) == g \ {c \in CellsOf(W, H) : c \in mask}

\* blockblaster_grid_clear
grid_clear(W, H, g) == g \ CellsOf(W, H)

(***************************************************************************)
(* Scoring and combo state machine                                         *)
(***************************************************************************)
\* the GameContext fields blockblaster_score_move reads and writes
ScoreState ==
  [score |-> score, high_score |-> high_score, combo |-> combo,
   highest_combo |-> highest_combo, last_move_mult |-> last_move_mult,
   combo_miss |-> combo_miss]

\* score_move_clear with the multiplier taken from the combo as it was before
\* the cleared lines were added
score_move_clear_old_combo(gm, placed_cells, lines_cleared, cleared_cells) ==
  LET combo1 == gm.combo + lines_cleared
      highest1 == IF combo1 > gm.highest_combo THEN combo1 ELSE gm.highest_combo
      mult == IF 1 + gm.combo > MAX_MULTIPLIER THEN MAX_MULTIPLIER ELSE 1 + gm.combo
      subtotal == cleared_cells * SCORE_PER_CLEARED_CELL
                  + lines_cleared * SCORE_PER_LINE_BONUS
                  + (IF lines_cleared > 1
                     THEN SCORE_MULTI_LINE_BONUS * (lines_cleared - 1) ELSE 0)
  IN  [combo |-> combo1, highest_combo |-> highest1, combo_miss |-> 0,
       mult |-> mult, clear_gain |-> subtotal * mult]

\* the lines_cleared > 0 branch of blockblaster_score_move
score_move_clear(gm, placed_cells, lines_cleared, cleared_cells) ==
  LET combo1 == gm.combo + lines_cleared
      highest1 == IF combo1 > gm.highest_combo THEN combo1 ELSE gm.highest_combo
      mult == IF 1 + combo1 > MAX_MULTIPLIER THEN MAX_MULTIPLIER ELSE 1 + combo1
      base_clear == cleared_cells * SCORE_PER_CLEARED_CELL
      line_bonus == lines_cleared * SCORE_PER_LINE_BONUS
      multi_bonus == IF lines_cleared > 1
                     THEN SCORE_MULTI_LINE_BONUS * (lines_cleared - 1) ELSE 0
      subtotal == base_clear + line_bonus + multi_bonus
      clear_gain == subtotal * mult
  IN  [combo |-> combo1, highest_combo |-> highest1, combo_miss |-> 0,
       mult |-> mult, clear_gain |-> clear_gain]

\* score_move_miss with the combo dropped as soon as the miss count reaches
\* the limit instead of when it exceeds it
score_move_miss_early(gm) ==
  IF gm.combo > 0
  THEN IF gm.combo_miss + 1 >= COMBO_MISS_LIMIT
       THEN [combo |-> 0, highest_combo |-> gm.highest_combo, combo_miss |-> 0,
             mult |-> 1, clear_gain |-> 0]
       ELSE [combo |-> gm.combo, highest_combo |-> gm.highest_combo,
             combo_miss |-> gm.combo_miss + 1, mult |-> gm.last_move_mult,
             clear_gain |-> 0]
  ELSE [combo |-> gm.combo, highest_combo |-> gm.highest_combo,
        combo_miss |-> gm.combo_miss, mult |-> 1, clear_gain |-> 0]

\* score_move_miss with the multiplier back at 1 on every move without a line,
\* the combo kept during the window
score_move_miss_flat(gm) ==
  IF gm.combo > 0 /\ gm.combo_miss + 1 > COMBO_MISS_LIMIT
  THEN [combo |-> 0, highest_combo |-> gm.highest_combo, combo_miss |-> 0,
        mult |-> 1, clear_gain |-> 0]
  ELSE [combo |-> gm.combo, highest_combo |-> gm.highest_combo,
        combo_miss |-> IF gm.combo > 0 THEN gm.combo_miss + 1 ELSE gm.combo_miss,
        mult |-> 1, clear_gain |-> 0]

\* the else branch of blockblaster_score_move (no line cleared)
score_move_miss(gm) ==
  IF gm.combo > 0
  THEN IF gm.combo_miss + 1 > COMBO_MISS_LIMIT
       THEN [combo |-> 0, highest_combo |-> gm.highest_combo, combo_miss |-> 0,
             mult |-> 1, clear_gain |-> 0]
       ELSE [combo |-> gm.combo, highest_combo |-> gm.highest_combo,
             combo_miss |-> gm.combo_miss + 1, mult |-> gm.last_move_mult,
             clear_gain |-> 0]
  ELSE [combo |-> gm.combo, highest_combo |-> gm.highest_combo,
        combo_miss |-> gm.combo_miss, mult |-> 1, clear_gain |-> 0]

\* score_move that leaves out the points for the placed cells
score_move_clear_only(gm, placed_cells, lines_cleared, cleared_cells) ==
  LET b == IF lines_cleared > 0
           THEN score_move_clear(gm, placed_cells, lines_cleared, cleared_cells)
           ELSE score_move_miss(gm)
      score1 == gm.score + b.clear_gain
  IN  [gm |-> [score |-> score1,
               high_score |-> IF score1 > gm.high_score THEN score1 ELSE gm.high_score,
               combo |-> b.combo, highest_combo |-> b.highest_combo,
               last_move_mult |-> b.mult, combo_miss |-> b.combo_miss],
       gained_total |-> b.clear_gain, clear_gain |-> b.clear_gain, mult |-> b.mult]

\* blockblaster_score_move: the new score state, the total gain, the clear
\* gain and the multiplier handed back to the caller
score_move(gm, placed_cells, lines_cleared, cleared_cells) ==
  LET b == IF lines_cleared > 0
           THEN score_move_clear(gm, placed_cells, lines_cleared, cleared_cells)
           ELSE score_move_miss(gm)
      gained_total == placed_cells * SCORE_PER_PLACED_CELL + b.clear_gain
      score1 == gm.score + gained_total
  IN  [gm |-> [score |-> score1,
               high_score |-> IF score1 > gm.high_score THEN score1 ELSE gm.high_score,
               combo |-> b.combo, highest_combo |-> b.highest_combo,
               last_move_mult |-> b.mult, combo_miss |-> b.combo_miss],
       gained_total |-> gained_total, clear_gain |-> b.clear_gain, mult |-> b.mult]

(***************************************************************************)
(* High-score table                                                        *)
(***************************************************************************)
Entry(gw, gh, tc, sc, hc, nm) ==
  [grid_w |-> gw, grid_h |-> gh, tray_count |-> tc, score |-> sc,
   highest_combo |-> hc, name |-> nm]
\* an entry after memset(gm->high_scores, 0, ...)
ZeroEntry == Entry(0, 0, 0, 0, 0, <<>>)

\* snprintf(dst, MAX_PLAYER_NAME_LEN + 1, "%s", src)
Trunc(nm) == IF Len(nm) > MAX_PLAYER_NAME_LEN THEN SubSeq(nm, 1, MAX_PLAYER_NAME_LEN) ELSE nm

\* insert_high_score that takes the inserted score as the new high_score
insert_high_score_own(hs, hi, sc, cmb, nm) ==
  LET count == Len(hs)
      smaller == {i \in 1..count : sc > hs[i].score}
      pos == IF smaller = {} THEN count + 1
             ELSE CHOOSE i \in smaller : \A j \in smaller : i <= j
      new_count == IF count + 1 > MAX_HIGH_SCORES THEN MAX_HIGH_SCORES ELSE count + 1
      e == Entry(GRID_W, GRID_H, PIECES_PER_SET, sc, cmb, Trunc(nm))
      table == SubSeq(hs, 1, pos - 1) \o <<e>> \o SubSeq(hs, pos, new_count - 1)
  IN  IF pos > MAX_HIGH_SCORES
      THEN [high_scores |-> hs, high_score |-> hi]
      ELSE [high_scores |-> table, high_score |-> sc]

\* insert_high_score that also goes before an entry of the same score
insert_high_score_ties(hs, hi, sc, cmb, nm) ==
  LET count == Len(hs)
      smaller == {i \in 1..count : sc >= hs[i].score}
      pos == IF smaller = {} THEN count + 1
             ELSE CHOOSE i \in smaller : \A j \in smaller : i <= j
      new_count == IF count + 1 > MAX_HIGH_SCORES THEN MAX_HIGH_SCORES ELSE count + 1
      e == Entry(GRID_W, GRID_H, PIECES_PER_SET, sc, cmb, Trunc(nm))
      table == SubSeq(hs, 1, pos - 1) \o <<e>> \o SubSeq(hs, pos, new_count - 1)
  IN  IF pos > MAX_HIGH_SCORES
      THEN [high_scores |-> hs, high_score |-> hi]
      ELSE [high_scores |-> table, high_score |-> table[1].score]

\* blockblaster_insert_high_score: [high_scores, high_score]
insert_high_score(hs, hi, sc, cmb, nm) ==
  LET count == Len(hs)
      smaller == {i \in 1..count : sc > hs[i].score}
      pos == IF smaller = {} THEN count + 1
             ELSE CHOOSE i \in smaller : \A j \in smaller : i <= j
      new_count == IF count + 1 > MAX_HIGH_SCORES THEN MAX_HIGH_SCORES ELSE count + 1
      e == Entry(GRID_W, GRID_H, PIECES_PER_SET, sc, cmb, Trunc(nm))
      table == SubSeq(hs, 1, pos - 1) \o <<e>> \o SubSeq(hs, pos, new_count - 1)
  IN  IF pos > MAX_HIGH_SCORES
      THEN [high_scores |-> hs, high_score |-> hi]
      ELSE [high_scores |-> table, high_score |-> table[1].score]

(***************************************************************************)
(* Text records: printf formatting and fscanf parsing                      *)
(***************************************************************************)
\* a record file: exists is FALSE when fopen fails, toks are its tokens
Absent == [exists |-> FALSE, toks |-> <<>>]
File(toks) == [exists |-> TRUE, toks |-> toks]
DigitChars == <<"0", "1", "2", "3", "4", "5", "6", "7", "8", "9">>
IsDigit(ch) == \E d \in 1..10 : DigitChars[d] = ch
DigitVal(ch) == (CHOOSE d \in 1..10 : DigitChars[d] = ch) - 1

RECURSIVE FormatNat(_)
FormatNat(n) ==
  IF n < 10 THEN <<DigitChars[n + 1]>>
  ELSE FormatNat(n \div 10) \o <<DigitChars[(n % 10) + 1]>>
\* "%d" / "%ld"
FormatInt(n) == IF n < 0 THEN <<"-">> \o FormatNat(0 - n) ELSE FormatNat(n)
\* "%.5s": nothing is written for an empty string
FormatName(nm) == IF nm = <<>> THEN <<>> ELSE <<Trunc(nm)>>

RECURSIVE DigitRun(_, _)
\* number of digits of token t from position i on
DigitRun(t, i) == IF i > Len(t) \/ ~IsDigit(t[i]) THEN 0 ELSE 1 + DigitRun(t, i + 1)
RECURSIVE NatOf(_, _, _)
\* value of the k digits of t that end at position i + k - 1
NatOf(t, i, k) == IF k = 0 THEN 0 ELSE NatOf(t, i, k - 1) * 10 + DigitVal(t[i + k - 1])

\* a "%d" / "%ld" conversion of token t whose digits start at from and are k long
ConvInt(t, from, k) ==
  [ok |-> k > 0,
   val |-> IF t[1] = "-" THEN 0 - NatOf(t, from, k) ELSE NatOf(t, from, k),
   left |-> SubSeq(t, from + k, Len(t))]

\* one fscanf conversion applied to the next token: "d" is %d or %ld, "s5" is
\* %5s; left is the unread rest of the token
Conv(t, f) ==
  IF f = "s5"
  THEN [ok |-> TRUE, val |-> Trunc(t),
        left |-> IF Len(t) > MAX_PLAYER_NAME_LEN
                 THEN SubSeq(t, MAX_PLAYER_NAME_LEN + 1, Len(t)) ELSE <<>>]
  ELSE IF t[1] \in {"-", "+"} THEN ConvInt(t, 2, DigitRun(t, 2))
  ELSE ConvInt(t, 1, DigitRun(t, 1))

\* the result of a scan whose first conversion gave v and whose rest gave more
ScanCons(v, more) == [n |-> 1 + more.n, vals |-> <<v>> \o more.vals, rest |-> more.rest]

RECURSIVE Scan(_, _)
\* the scan after the first conversion r of the tokens toks
ScanNext(r, toks, fmt) ==
  IF ~r.ok THEN [n |-> 0, vals |-> <<>>, rest |-> toks]
  ELSE ScanCons(r.val, Scan((IF r.left = <<>> THEN <<>> ELSE <<r.left>>) \o Tail(toks),
                            Tail(fmt)))

\* fscanf(f, fmt, ...): n conversions done, their values, the unread tokens
Scan(toks, fmt) ==
  IF fmt = <<>> \/ toks = <<>> THEN [n |-> 0, vals |-> <<>>, rest |-> toks]
  ELSE ScanNext(Conv(Head(toks), Head(fmt)), toks, fmt)

NewFormat == <<"d", "d", "d", "d", "d", "s5">>
OldFormat == <<"d", "d", "s5">>

\* SaveLine with the highest combo written before the score
SaveLine_swapped(e) ==
  <<FormatInt(e.grid_w), FormatInt(e.grid_h), FormatInt(e.tray_count),
    FormatInt(e.highest_combo), FormatInt(e.score)>> \o FormatName(e.name)

\* one "%d %d %d %ld %d %.5s\n" line of blockblaster_save_high_scores
SaveLine(e) ==
  <<FormatInt(e.grid_w), FormatInt(e.grid_h), FormatInt(e.tray_count),
    FormatInt(e.score), FormatInt(e.highest_combo)>> \o FormatName(e.name)
RECURSIVE SaveLines(_, _)
SaveLines(hs, i) == IF i > Len(hs) THEN <<>> ELSE SaveLine(hs[i]) \o SaveLines(hs, i + 1)
\* blockblaster_save_high_scores: the file written
save_high_scores(hs) == File(<<FormatInt(Len(hs))>> \o SaveLines(hs, 1))

RECURSIVE LoadEntries(_, _)
\* one turn of the entry loop of blockblaster_load_high_scores, a being the
\* scan in the new format and b the scan in the old one after the seek back;
\* high_score_count was set to the declared count before the loop, so the
\* entries after a break stay as memset left them
LoadEntry(a, b, k) ==
  IF a.n >= 6
  THEN <<Entry(a.vals[1], a.vals[2], a.vals[3], a.vals[4], a.vals[5],
               Trunc(a.vals[6]))>> \o LoadEntries(a.rest, k - 1)
  ELSE IF b.n < 2
  THEN <<Entry(0, 0, 0,
               IF b.n >= 1 THEN b.vals[1] ELSE IF a.n >= 4 THEN a.vals[4] ELSE 0,
               IF a.n >= 5 THEN a.vals[5] ELSE 0, <<>>)>>
       \o [i \in 1..(k - 1) |-> ZeroEntry]
  ELSE <<Entry(LEGACY_GRID, LEGACY_GRID, LEGACY_TRAY, b.vals[1], b.vals[2],
               IF b.n >= 3 THEN Trunc(b.vals[3]) ELSE <<>>)>>
       \o LoadEntries(b.rest, k - 1)

\* the entry loop over k declared entries
LoadEntries(toks, k) ==
  IF k = 0 THEN <<>> ELSE LoadEntry(Scan(toks, NewFormat), Scan(toks, OldFormat), k)

\* the "Clamp values" loop of blockblaster_load_high_scores
ClampEntry(e) ==
  [e EXCEPT !.score = IF @ < 0 THEN 0 ELSE @,
            !.highest_combo = IF @ < 0 THEN 0 ELSE @,
            !.name = IF @ = <<>> THEN PLAYR ELSE @]

\* the table as read, before clamping: cnt is the scan of the count line, leg
\* the scan of the legacy file
LoadRaw(sf, lf, cnt, leg) ==
  IF ~sf.exists
  THEN IF ~lf.exists \/ leg.n < 1 THEN <<>>
       ELSE <<Entry(0, 0, 0, leg.vals[1], IF leg.n >= 2 THEN leg.vals[2] ELSE 0, PLAYR)>>
  ELSE IF cnt.n # 1 THEN <<>>
  ELSE LoadEntries(cnt.rest, Max(0, Min(MAX_HIGH_SCORES, cnt.vals[1])))

\* high_score from entry 0 as read, then the "Clamp values" loop
LoadDone(raw) ==
  [high_scores |-> [i \in 1..Len(raw) |-> ClampEntry(raw[i])],
   high_score |-> IF Len(raw) > 0 THEN raw[1].score ELSE 0]

\* blockblaster_load_high_scores (desktop build): [high_scores, high_score]
load_high_scores(sf, lf) ==
  LoadDone(LoadRaw(sf, lf, Scan(sf.toks, <<"d">>), Scan(lf.toks, <<"d", "d">>)))

\* blockblaster_save_player_name: the file written
save_player_name(nm) == File(FormatName(nm))

\* blockblaster_load_player_name
LoadName(nf, r) ==
  IF ~nf.exists THEN PLAYR
  ELSE IF r.n = 1 /\ r.vals[1] # <<>> THEN r.vals[1] ELSE PLAYR
load_player_name(nf) == LoadName(nf, Scan(nf.toks, <<"s5">>))

\* blockblaster_save_settings: the "%d %d\n" file written
save_settings(tc, gs) == File(<<FormatInt(tc), FormatInt(gs)>>)

\* the clamp at the end of blockblaster_load_settings
ClampSettings(tc, gs) ==
  [tray_count |-> IF tc < 1 THEN 1 ELSE IF tc > 4 THEN 4 ELSE tc,
   grid_size |-> IF gs # 10 /\ gs # 15 /\ gs # 20 THEN 10 ELSE gs]
\* the values taken from the scan s of an opened settings file
ScannedSettings(s) ==
  IF s.n >= 2 THEN ClampSettings(s.vals[1], s.vals[2]) ELSE ClampSettings(4, 10)
\* blockblaster_load_settings on the settings file f
load_settings(f) ==
  IF ~f.exists THEN [tray_count |-> 4, grid_size |-> 10]
  ELSE ScannedSettings(Scan(f.toks, <<"d", "d">>))
(***************************************************************************)
(* Tray, bag cursor, drop preview                                          *)
(***************************************************************************)
Slots == 0..(PIECES_PER_SET - 1)
AllSlots == 0..(MaxTray - 1)
EmptyShape == [w |-> 0, h |-> 0, cells |-> {}]
Piece(s, u) == [shape |-> s, used |-> u]
\* the pointer: over grid cell <<gx, gy>>, or outside the grid rectangle
MouseOut == [in |-> FALSE, gx |-> 0, gy |-> 0]
MouseAt(c) == [in |-> TRUE, gx |-> c[1], gy |-> c[2]]
NoPreview == <<-999, -999>>

\* bag_next_shape_index, n times: the bag cursor after n draws
RECURSIVE BagAfter(_, _, _)
BagAfter(len, pos, n) ==
  IF n = 0 THEN [len |-> len, pos |-> pos]
  ELSE IF len <= 0 \/ pos >= len THEN BagAfter(BAG_SIZE, 1, n - 1)
  ELSE BagAfter(len, pos + 1, n - 1)

\* weighted_shape_index: the indices the weighted pick can return, sampled
\* at the first, a middle and the last entry of SHAPES
weighted_shape_index == {0, 20, SHAPES_COUNT - 1}

\* a swap that stores a[j] in a[i] and never writes a[i] back into a[j]
Swap_copy(a, i, j) == [a EXCEPT ![i] = a[j]]
\* the swap of blockblaster_shuffle_ints (a is 1-based here)
Swap(a, i, j) == [a EXCEPT ![i] = a[j], ![j] = a[i]]

\* blockblaster_shuffle_ints: every outcome of the Fisher-Yates pass
\* for i = n-1 downto 1: j = irand(0, i), swap a[i] and a[j]
RECURSIVE shuffle_from(_, _)
shuffle_from(a, i) ==
  IF i <= 0 THEN {a}
  ELSE UNION {shuffle_from(Swap(a, i + 1, j + 1), i - 1) : j \in 0..i}
shuffle_ints(a, n) == shuffle_from(a, n - 1)

\* bag_refill: BAG_SIZE weighted picks, shuffled, cursor back to 0
bag_refill(b) ==
  UNION {{[bag |-> s, len |-> BAG_SIZE, pos |-> 0, picks |-> p] :
            s \in shuffle_ints(p, BAG_SIZE)} :
         p \in [1..BAG_SIZE -> weighted_shape_index]}

\* bag_next_shape_index on the bag b = [bag, len, pos]: every outcome, with
\* the value returned
bag_next_shape_index(b) ==
  IF b.len <= 0 \/ b.pos >= b.len
  THEN {[bag |-> r.bag, len |-> r.len, pos |-> r.pos + 1, value |-> r.bag[r.pos + 1],
         refilled |-> TRUE, picks |-> r.picks] : r \in bag_refill(b)}
  ELSE {[bag |-> b.bag, len |-> b.len, pos |-> b.pos + 1, value |-> b.bag[b.pos + 1],
         refilled |-> FALSE, picks |-> <<>>]}

\* blockblaster_refill_tray with the drawn shape indices si[0..pps-1]
refill_tray(tr, pps, si) ==
  [i \in AllSlots |-> IF i < pps THEN Piece(SHAPES[si[i]], FALSE) ELSE tr[i]]

\* blockblaster_tray_all_used
tray_all_used(tr, pps) == \A i \in 0..(pps - 1) : tr[i].used

\* none_placeable that also counts the pieces already placed from the tray
none_placeable_any_piece(W, H, tr, pps, g) ==
  \A i \in 0..(pps - 1) : ~any_valid_placement(W, H, g, tr[i].shape)

\* blockblaster_none_placeable
none_placeable(W, H, tr, pps, g) ==
  \A i \in 0..(pps - 1) : tr[i].used \/ ~any_valid_placement(W, H, g, tr[i].shape)

\* blockblaster_clear_predicted on a W x H grid: the flags of its rows and
\* columns reset, [has_predicted_clear, pred_full_row, pred_full_col]
clear_predicted(W, H) ==
  [has |-> FALSE, rows |-> pred_full_row \ Rows(H), cols |-> pred_full_col \ Cols(W)]

\* blockblaster_compute_predicted_clear for shape s at (gx, gy)
compute_predicted_clear(g, s, gx, gy) ==
  LET temp == g \cup {c \in Cells : \E f \in FilledCells(s) :
                                      c = <<gx + f[1], gy + f[2]>>}
  IN  [has |-> TRUE,
       rows |-> (pred_full_row \ Rows(GRID_H))
                  \cup {y \in Rows(GRID_H) : is_row_full(GRID_W, temp, y)},
       cols |-> (pred_full_col \ Cols(GRID_W))
                  \cup {x \in Cols(GRID_W) : is_col_full(GRID_H, temp, x)}]

\* the preview left by the early returns of update_drop_preview
NoDropPreview ==
  [can |-> FALSE, cell |-> NoPreview, pred |-> clear_predicted(GRID_W, GRID_H)]

\* update_drop_preview that tests the bounds only, not the occupied cells
update_drop_preview_bounds_only(drg, idx, tr, ms, gr, g) ==
  IF ~drg THEN NoDropPreview
  ELSE IF tr[idx].used THEN NoDropPreview
  ELSE IF ~ms.in THEN NoDropPreview
  ELSE LET gx == ms.gx - gr[1]
           gy == ms.gy - gr[2]
           can == can_place_at(GRID_W, GRID_H, {}, tr[idx].shape, gx, gy)
       IN  [can |-> can, cell |-> <<gx, gy>>,
            pred |-> IF can THEN compute_predicted_clear(g, tr[idx].shape, gx, gy)
                     ELSE clear_predicted(GRID_W, GRID_H)]

\* blockblaster_update_drop_preview: [can_drop_preview, preview_cell] and the
\* predicted clear
update_drop_preview(drg, idx, tr, ms, gr, g) ==
  IF ~drg THEN NoDropPreview
  ELSE IF tr[idx].used THEN NoDropPreview
  ELSE IF ~ms.in THEN NoDropPreview
  ELSE LET gx == ms.gx - gr[1]
           gy == ms.gy - gr[2]
           can == can_place_at(GRID_W, GRID_H, g, tr[idx].shape, gx, gy)
       IN  [can |-> can, cell |-> <<gx, gy>>,
            pred |-> IF can THEN compute_predicted_clear(g, tr[idx].shape, gx, gy)
                     ELSE clear_predicted(GRID_W, GRID_H)]

\* the fields blockblaster_clear_predicted and compute_predicted_clear write
SetPredicted(p) ==
  /\ has_predicted_clear' = p.has
  /\ pred_full_row' = p.rows /\ pred_full_col' = p.cols
\* the fields blockblaster_update_drop_preview writes
SetPreview(pv) ==
  /\ can_drop_preview' = pv.can /\ preview_cell' = pv.cell
  /\ SetPredicted(pv.pred)

\* blockblaster_random_fill: the sets of cells it can leave occupied when asked
\* for count cells (fewer when the 5000 tries run out)
random_fill(W, H, g, count) ==
  {g \cup S : S \in {T \in SUBSET (CellsOf(W, H) \ g) :
                       /\ Cardinality(T) <= count
                       /\ (count > 0 /\ CellsOf(W, H) \ g # {}) => T # {}}}

\* blockblaster_set_gameover: [player_name, editing_name, name_cursor, state]
set_gameover(pn, lpn) ==
  LET n1 == IF pn = <<>> THEN Trunc(lpn) ELSE pn
      n2 == IF n1 = <<>> THEN PLAYR ELSE n1
  IN  [player_name |-> n2, editing_name |-> TRUE, name_cursor |-> Len(n2),
       state |-> STATE_GAMEOVER]

(***************************************************************************)
(* Initial state: main() up to the event loop                              *)
(***************************************************************************)
\* a scores file written by an earlier run that filled the table
\* the persisted records the program may find at start-up
FilesNone == [scores |-> Absent, legacy |-> Absent, name |-> Absent]

\* GameContext gm = {0} and the globals, before any game
InitGridOf(sz, tc) ==
  /\ GRID_W = sz /\ GRID_H = sz /\ PIECES_PER_SET = tc
  /\ state = STATE_MENU
  /\ grid = {}
  /\ tray = [i \in AllSlots |-> Piece(EmptyShape, FALSE)]
InitGrid == InitGridOf(GridSizeA, MaxTray)
InitScore ==
  /\ score = 0 /\ combo = 0 /\ highest_combo = 0 /\ last_move_mult = 0
  /\ combo_miss = 0
\* load_high_scores, load_player_name and the copy into player_name
InitTable(files) ==
  /\ \E f \in files :
       /\ scores_file = f.scores /\ legacy_file = f.legacy /\ name_file = f.name
       /\ high_scores = load_high_scores(f.scores, f.legacy).high_scores
       /\ high_score = load_high_scores(f.scores, f.legacy).high_score
       /\ last_player_name = load_player_name(f.name)
       /\ player_name = load_player_name(f.name)
  /\ editing_name = FALSE /\ name_cursor = 0
InitRestOf(sz, tc) ==
  /\ dragging = FALSE /\ dragging_index = 0 /\ mouse = MouseOut
  /\ grab = <<0, 0>> /\ can_drop_preview = FALSE /\ preview_cell = <<0, 0>>
  /\ pred_full_row = {} /\ pred_full_col = {} /\ has_predicted_clear = FALSE
  /\ clearing = FALSE /\ clear_t = 0 /\ pending_clear = {} /\ flash_ticks = 0
  /\ returning = FALSE /\ return_index = 0 /\ return_t = 0
  /\ bag_len = 0 /\ bag_pos = 0
  /\ confirm_exit = FALSE
  /\ setting_tray_count = tc /\ setting_grid_size = sz
  /\ call = [op |-> "init"]
  /\ games = 0 /\ keys = 0 /\ steps = 0 /\ session_best = 0
InitRest == InitRestOf(GridSizeA, MaxTray)

\* main() up to the event loop, the persisted records being one of files
InitWith(files) == InitGrid /\ InitScore /\ InitTable(files) /\ InitRest

(***************************************************************************)
(* blockblaster_start_game, from the two start buttons of the menu         *)
(***************************************************************************)
\* FILL_MIN and FILL_MAX (16 and 28 on the 10x10 grid), scaled to the model
FILL_MIN == 1
FILL_MAX == 2

\* a start_game that begins every game with an empty bag
start_game_bag_reset(len, pos, pps) == BagAfter(0, 0, pps)
\* the bag cursor as start_game leaves it: start_game writes neither bag_len
\* nor bag_pos, its refill_tray draws pps entries
start_game_bag(len, pos, pps) == BagAfter(len, pos, pps)

start_game(mode) ==
  LET W == setting_grid_size
      H == setting_grid_size
      pps == setting_tray_count
      g0 == grid_clear(W, H, grid)
      bag == start_game_bag(bag_len, bag_pos, pps)
  IN  /\ GRID_W' = W /\ GRID_H' = H /\ PIECES_PER_SET' = pps
      /\ score' = 0 /\ combo' = 0 /\ highest_combo' = 0 /\ last_move_mult' = 1
      /\ combo_miss' = 0
      /\ high_score' = high_score
      /\ dragging' = FALSE /\ dragging_index' = -1
      /\ returning' = FALSE /\ return_t' = 0 /\ return_index' = -1
      /\ SetPredicted(clear_predicted(W, H))
      /\ clearing' = FALSE /\ clear_t' = 0 /\ flash_ticks' = 0
      /\ pending_clear' = pending_clear \ CellsOf(W, H)
      /\ \E g1 \in IF mode = 1
                   THEN UNION {random_fill(W, H, g0, fill) : fill \in FILL_MIN..FILL_MAX}
                   ELSE {g0} :
           LET m == build_clear_mask(W, H, g1)
           IN  grid' = IF mode = 1 /\ m.lines > 0
                       THEN apply_clear_mask(W, H, g1, m.mask) ELSE g1
      /\ \E si \in [0..(pps - 1) -> DrawIndices] : tray' = refill_tray(tray, pps, si)
      /\ bag_len' = bag.len /\ bag_pos' = bag.pos
      /\ state' = IF none_placeable(W, H, tray', pps, grid')
                  THEN set_gameover(player_name, last_player_name).state
                  ELSE STATE_PLAY
      /\ player_name' = Trunc(last_player_name)
      /\ editing_name' = FALSE /\ name_cursor' = 0
      /\ UNCHANGED <<last_player_name, high_scores, mouse, grab, can_drop_preview,
                     preview_cell, confirm_exit, settingVars, fileVars>>

StartGame(mode) ==
  /\ state = STATE_MENU
  /\ start_game(mode)
  /\ games' = games + 1 /\ keys' = 0 /\ steps' = steps
  /\ session_best' = session_best
  /\ call' = [op |-> "start_game"]

StartEmpty == StartGame(0)
StartPartial == StartGame(1)

\* MENU_ACTION_CYCLE_TRAY
CycleTray ==
  /\ state = STATE_MENU
  /\ setting_tray_count' = IF setting_tray_count + 1 > MaxTray THEN 1
                           ELSE setting_tray_count + 1
  /\ UNCHANGED <<globalVars, state, grid, tray, scoreVars, high_scores, nameVars,
                 dragVars, clearVars, returnVars, bagVars, confirm_exit,
                 setting_grid_size, fileVars, call, budgetVars>>

\* MENU_ACTION_CYCLE_GRID
CycleGrid ==
  /\ state = STATE_MENU
  /\ setting_grid_size' = IF setting_grid_size = GridSizeA THEN GridSizeB ELSE GridSizeA
  /\ UNCHANGED <<globalVars, state, grid, tray, scoreVars, high_scores, nameVars,
                 dragVars, clearVars, returnVars, bagVars, confirm_exit,
                 setting_tray_count, fileVars, call, budgetVars>>

(***************************************************************************)
(* Play: drag, pointer motion, drop                                        *)
(***************************************************************************)
\* where the pointer can be
MousePositions == {MouseOut} \cup {MouseAt(c) : c \in Cells}

\* DragStart accepted while a clear flash or a return is running
DragStart_any_time(i, g) ==
  /\ state = STATE_PLAY /\ ~confirm_exit
  /\ i \in Slots /\ ~tray[i].used
  /\ g \in FilledCells(tray[i].shape)
  /\ dragging' = TRUE /\ dragging_index' = i /\ grab' = g
  /\ mouse' = MouseOut
  /\ LET pv == update_drop_preview(TRUE, i, tray, MouseOut, g, grid)
     IN  SetPreview(pv)
  /\ UNCHANGED <<globalVars, state, grid, tray, scoreVars, high_scores, nameVars,
                 clearVars, returnVars, bagVars, confirm_exit, settingVars,
                 fileVars, call, budgetVars>>

\* a press that also picks up a slot whose piece is already on the grid
DragStart_used_piece(i, g) ==
  /\ state = STATE_PLAY /\ ~confirm_exit
  /\ ~clearing /\ ~returning
  /\ i \in Slots
  /\ g \in FilledCells(tray[i].shape)
  /\ dragging' = TRUE /\ dragging_index' = i /\ grab' = g
  /\ mouse' = MouseOut
  /\ LET pv == update_drop_preview(TRUE, i, tray, MouseOut, g, grid)
     IN  SetPreview(pv)
  /\ UNCHANGED <<globalVars, state, grid, tray, scoreVars, high_scores, nameVars,
                 clearVars, returnVars, bagVars, confirm_exit, settingVars,
                 fileVars, call, budgetVars>>

\* ALLEGRO_EVENT_MOUSE_BUTTON_DOWN in STATE_PLAY on the rectangle of tray
\* slot i, the click falling on filled cell g of the piece
DragStart(i, g) ==
  /\ state = STATE_PLAY /\ ~confirm_exit
  /\ ~clearing /\ ~returning
  /\ i \in Slots /\ ~tray[i].used
  /\ g \in FilledCells(tray[i].shape)
  /\ dragging' = TRUE /\ dragging_index' = i /\ grab' = g
  /\ mouse' = MouseOut
  /\ LET pv == update_drop_preview(TRUE, i, tray, MouseOut, g, grid)
     IN  SetPreview(pv)
  /\ UNCHANGED <<globalVars, state, grid, tray, scoreVars, high_scores, nameVars,
                 clearVars, returnVars, bagVars, confirm_exit, settingVars,
                 fileVars, call, budgetVars>>

\* ALLEGRO_EVENT_MOUSE_AXES (followed only while a piece is held: nothing
\* reads the pointer otherwise, and the next button press sets it again)
MouseAxes(m) ==
  /\ dragging
  /\ m \in MousePositions
  /\ mouse' = m
  /\ LET pv == update_drop_preview(dragging, dragging_index, tray, m, grab, grid)
     IN  IF state = STATE_PLAY /\ dragging /\ ~confirm_exit
         THEN SetPreview(pv)
         ELSE UNCHANGED <<can_drop_preview, preview_cell, pred_full_row,
                          pred_full_col, has_predicted_clear>>
  /\ UNCHANGED <<globalVars, state, grid, tray, scoreVars, high_scores, nameVars,
                 dragging, dragging_index, grab, clearVars, returnVars, bagVars,
                 confirm_exit, settingVars, fileVars, call, budgetVars>>

\* a popup test that fires on every clearing drop
combo_popup_due_any_clear(old_mult, lines, applied_mult) == lines > 0
\* blockblaster_try_drop's test for blockblaster_start_combo_popup; the
\* multipliers are whole numbers, so the 0.001 tolerance changes nothing
combo_popup_due(old_mult, lines, applied_mult) == lines > 0 /\ applied_mult > old_mult

\* blockblaster_try_drop, the branch that places the held piece
try_drop_place ==
  LET idx == dragging_index
      p == tray[idx]
      g1 == place_shape(GRID_W, GRID_H, grid, p.shape, preview_cell[1], preview_cell[2])
      placed_cells == Cardinality(FilledCells(p.shape))
      m == build_clear_mask(GRID_W, GRID_H, g1)
      lines == m.lines
      cleared_cells == IF lines > 0
                       THEN count_cells_in_mask(GRID_W, GRID_H, g1, m.mask) ELSE 0
      sm == score_move(ScoreState, placed_cells, lines, cleared_cells)
      tray1 == [tray EXCEPT ![idx].used = TRUE]
      refill == tray_all_used(tray1, PIECES_PER_SET)
      bag == BagAfter(bag_len, bag_pos, PIECES_PER_SET)
      go == set_gameover(player_name, last_player_name)
  IN  /\ grid' = g1
      /\ score' = sm.gm.score /\ high_score' = sm.gm.high_score
      /\ combo' = sm.gm.combo /\ highest_combo' = sm.gm.highest_combo
      /\ last_move_mult' = sm.gm.last_move_mult /\ combo_miss' = sm.gm.combo_miss
      /\ clearing' = (lines > 0)
      /\ clear_t' = IF lines > 0 THEN CLEAR_FLASH_TIME ELSE clear_t
      /\ pending_clear' = IF lines > 0 THEN (pending_clear \ Cells) \cup m.mask
                          ELSE pending_clear
      /\ flash_ticks' = IF lines > 0 THEN 0 ELSE flash_ticks
      /\ IF refill
         THEN /\ \E si \in [Slots -> DrawIndices] :
                   tray' = refill_tray(tray1, PIECES_PER_SET, si)
              /\ bag_len' = bag.len /\ bag_pos' = bag.pos
         ELSE tray' = tray1 /\ UNCHANGED bagVars
      /\ IF ~clearing' /\ none_placeable(GRID_W, GRID_H, tray', PIECES_PER_SET, g1)
         THEN /\ state' = go.state /\ player_name' = go.player_name
              /\ editing_name' = go.editing_name /\ name_cursor' = go.name_cursor
         ELSE UNCHANGED <<state, player_name, editing_name, name_cursor>>
      /\ call' = [op |-> "place", placed |-> placed_cells, lines |-> lines,
                  cleared |-> cleared_cells, gained |-> sm.gained_total,
                  mult |-> sm.mult,
                  popup |-> combo_popup_due(last_move_mult, lines, sm.mult),
                  kind |-> IF lines > 0 THEN "clear"
                           ELSE IF combo = 0 THEN "plain"
                           ELSE IF combo_miss + 1 > COMBO_MISS_LIMIT THEN "reset"
                           ELSE "miss"]
      /\ UNCHANGED <<returnVars, last_player_name, pred_full_row, pred_full_col,
                     has_predicted_clear>>

\* try_drop that ends the drag on an invalid preview without start_return
try_drop_no_return ==
  IF ~dragging \/ clearing
  THEN /\ UNCHANGED <<call, grid, tray, scoreVars, state, nameVars, dragging,
                      clearVars, returnVars, bagVars, pred_full_row,
                      pred_full_col, has_predicted_clear>>
  ELSE /\ dragging' = FALSE
       /\ IF tray[dragging_index].used \/ ~can_drop_preview
          THEN /\ UNCHANGED <<call, grid, tray, scoreVars, state, nameVars,
                              clearVars, returnVars, bagVars, pred_full_row,
                              pred_full_col, has_predicted_clear>>
          ELSE try_drop_place

\* blockblaster_try_drop
try_drop ==
  IF ~dragging \/ clearing
  THEN /\ UNCHANGED <<call, grid, tray, scoreVars, state, nameVars, dragging,
                      clearVars, returnVars, bagVars, pred_full_row,
                      pred_full_col, has_predicted_clear>>
  ELSE /\ dragging' = FALSE
       /\ IF tray[dragging_index].used
          THEN /\ UNCHANGED <<call, grid, tray, scoreVars, state, nameVars,
                              clearVars, returnVars, bagVars, pred_full_row,
                              pred_full_col, has_predicted_clear>>
          ELSE IF ~can_drop_preview
          THEN /\ returning' = TRUE /\ return_index' = dragging_index
               /\ return_t' = RETURN_TIME
               /\ SetPredicted(clear_predicted(GRID_W, GRID_H))
               /\ UNCHANGED <<call, grid, tray, scoreVars, state, nameVars,
                              clearVars, bagVars>>
          ELSE try_drop_place

\* ALLEGRO_EVENT_MOUSE_BUTTON_UP
MouseUp ==
  /\ state = STATE_PLAY /\ ~confirm_exit
  /\ try_drop
  /\ UNCHANGED <<globalVars, high_scores, dragging_index, mouse, grab,
                 can_drop_preview, preview_cell, confirm_exit, settingVars,
                 fileVars, games, keys, steps>>
  /\ session_best' = IF score' > session_best THEN score' ELSE session_best

(***************************************************************************)
(* Timer tick: clear flash, return animation, preview refresh              *)
(***************************************************************************)
\* ALLEGRO_EVENT_TIMER, with blockblaster_finish_clear when the flash ends
Tick ==
  LET fin == clearing /\ clear_t - DT <= 0
      g1 == IF fin THEN apply_clear_mask(GRID_W, GRID_H, grid, pending_clear) ELSE grid
      over == fin /\ state = STATE_PLAY
                  /\ none_placeable(GRID_W, GRID_H, tray, PIECES_PER_SET, g1)
      go == set_gameover(player_name, last_player_name)
      back == returning /\ return_t - DT <= 0
      pv == update_drop_preview(dragging, dragging_index, tray, mouse, grab, g1)
  IN  /\ grid' = g1
      /\ clearing' = (clearing /\ ~fin)
      /\ clear_t' = IF ~clearing THEN clear_t ELSE IF fin THEN 0 ELSE clear_t - DT
      /\ pending_clear' = IF fin THEN pending_clear \ Cells ELSE pending_clear
      /\ flash_ticks' = IF clearing THEN flash_ticks + 1 ELSE flash_ticks
      /\ IF over
         THEN /\ state' = go.state /\ player_name' = go.player_name
              /\ editing_name' = go.editing_name /\ name_cursor' = go.name_cursor
         ELSE UNCHANGED <<state, player_name, editing_name, name_cursor>>
      /\ returning' = (returning /\ ~back)
      /\ return_t' = IF ~returning THEN return_t ELSE IF back THEN 0 ELSE return_t - DT
      /\ IF state' = STATE_PLAY /\ dragging /\ ~confirm_exit
         THEN SetPreview(pv)
         ELSE UNCHANGED <<can_drop_preview, preview_cell, pred_full_row,
                          pred_full_col, has_predicted_clear>>
      /\ call' = call
      /\ UNCHANGED <<globalVars, tray, scoreVars, high_scores, last_player_name,
                     dragging, dragging_index, mouse, grab, return_index, bagVars,
                     confirm_exit, settingVars, fileVars, budgetVars>>

(***************************************************************************)
(* Exit dialog, window events                                              *)
(***************************************************************************)
\* the exit button of the play screen
PlayExitClicked ==
  /\ state = STATE_PLAY /\ ~confirm_exit /\ ~clearing /\ ~returning
  /\ confirm_exit' = TRUE
  /\ mouse' = MouseOut
  /\ UNCHANGED <<globalVars, state, grid, tray, scoreVars, high_scores, nameVars,
                 dragging, dragging_index, grab, can_drop_preview, preview_cell,
                 pred_full_row, pred_full_col, has_predicted_clear,
                 clearVars, returnVars, bagVars, settingVars, fileVars, call, budgetVars>>

\* the No button of the exit dialog; the pointer was moved there before
ExitConfirmNo ==
  /\ state = STATE_PLAY /\ confirm_exit
  /\ confirm_exit' = FALSE
  /\ mouse' = mouse
  /\ UNCHANGED <<globalVars, state, grid, tray, scoreVars, high_scores, nameVars,
                 dragging, dragging_index, grab, can_drop_preview, preview_cell,
                 pred_full_row, pred_full_col, has_predicted_clear,
                 clearVars, returnVars, bagVars, settingVars, fileVars, call, budgetVars>>

\* ALLEGRO_KEY_ESCAPE in STATE_PLAY
KeyEscape ==
  /\ state = STATE_PLAY
  /\ confirm_exit' = ~confirm_exit
  /\ UNCHANGED <<globalVars, state, grid, tray, scoreVars, high_scores, nameVars,
                 dragVars, clearVars, returnVars, bagVars, settingVars, fileVars, call, budgetVars>>

\* ALLEGRO_EVENT_DISPLAY_CLOSE in STATE_PLAY
DisplayClose ==
  /\ state = STATE_PLAY
  /\ confirm_exit' = TRUE
  /\ UNCHANGED <<globalVars, state, grid, tray, scoreVars, high_scores, nameVars,
                 dragVars, clearVars, returnVars, bagVars, settingVars, fileVars, call, budgetVars>>

\* ALLEGRO_EVENT_DISPLAY_HALT_DRAWING
HaltDrawing ==
  /\ dragging' = FALSE
  /\ can_drop_preview' = IF dragging THEN FALSE ELSE can_drop_preview
  /\ IF dragging THEN SetPredicted(clear_predicted(GRID_W, GRID_H))
     ELSE UNCHANGED <<pred_full_row, pred_full_col, has_predicted_clear>>
  /\ returning' = FALSE
  /\ return_t' = IF returning THEN 0 ELSE return_t
  /\ UNCHANGED <<globalVars, state, grid, tray, scoreVars, high_scores, nameVars,
                 dragging_index, mouse, grab, preview_cell, clearVars, return_index,
                 bagVars, confirm_exit, settingVars, fileVars, call, budgetVars>>

\* ALLEGRO_EVENT_KEY_DOWN with F11: blockblaster_toggle_fullscreen,
\* blockblaster_update_view_offset and the font reload change the display
\* size, scale, offsets and font only; the toggle is kept in call
KeyF11 ==
  /\ call' = [op |-> "toggle_fullscreen",
              fullscreen |-> ~(call.op = "toggle_fullscreen" /\ call.fullscreen)]
  /\ UNCHANGED <<globalVars, state, grid, tray, scoreVars, high_scores, nameVars,
                 dragVars, clearVars, returnVars, bagVars, confirm_exit,
                 settingVars, fileVars, budgetVars>>

(***************************************************************************)
(* Game over: name entry, confirmation, back to the menu                   *)
(***************************************************************************)
\* the confirmation sequence without the replacement of an empty name
confirm_name_as_typed ==
  LET nm == player_name
      ld == load_high_scores(scores_file, legacy_file)
      ins == insert_high_score(ld.high_scores, ld.high_score, score, highest_combo, nm)
  IN  /\ player_name' = nm
      /\ high_scores' = ins.high_scores
      /\ high_score' = ins.high_score
      /\ scores_file' = save_high_scores(ins.high_scores)
      /\ last_player_name' = Trunc(nm)
      /\ name_file' = save_player_name(Trunc(nm))
      /\ editing_name' = FALSE
      /\ UNCHANGED <<globalVars, state, grid, tray, score, combo, highest_combo,
                     last_move_mult, combo_miss, name_cursor, dragVars, clearVars,
                     returnVars, bagVars, confirm_exit, settingVars, legacy_file,
                     budgetVars>>

\* the OK button / Enter key sequence: final name, reload, insert, save
confirm_name ==
  LET nm == IF player_name = <<>> THEN PLAYR ELSE player_name
      ld == load_high_scores(scores_file, legacy_file)
      ins == insert_high_score(ld.high_scores, ld.high_score, score, highest_combo, nm)
  IN  /\ player_name' = nm
      /\ high_scores' = ins.high_scores
      /\ high_score' = ins.high_score
      /\ scores_file' = save_high_scores(ins.high_scores)
      /\ last_player_name' = Trunc(nm)
      /\ name_file' = save_player_name(Trunc(nm))
      /\ editing_name' = FALSE
      /\ UNCHANGED <<globalVars, state, grid, tray, score, combo, highest_combo,
                     last_move_mult, combo_miss, name_cursor, dragVars, clearVars,
                     returnVars, bagVars, confirm_exit, settingVars, legacy_file,
                     budgetVars>>

\* click on the OK button of the game-over overlay
GameoverOkClicked ==
  /\ state = STATE_GAMEOVER
  /\ IF editing_name
     THEN /\ confirm_name
          /\ call' = [op |-> "confirm",
                      loaded |-> load_high_scores(scores_file, legacy_file).high_scores]
     ELSE UNCHANGED vars

\* ALLEGRO_KEY_ENTER while the name is edited
KeyEnter ==
  /\ state = STATE_GAMEOVER
  /\ IF editing_name
     THEN /\ confirm_name
          /\ call' = [op |-> "confirm",
                      loaded |-> load_high_scores(scores_file, legacy_file).high_scores]
     ELSE UNCHANGED vars

\* an alphabetic ALLEGRO_EVENT_KEY_CHAR while the name is edited
KeyLetter(ch) ==
  /\ state = STATE_GAMEOVER /\ editing_name
  /\ ch \in Letters
  /\ keys < MaxKeys /\ keys' = keys + 1
  /\ IF name_cursor < MAX_PLAYER_NAME_LEN
     THEN /\ player_name' = SubSeq(player_name, 1, name_cursor) \o <<ch>>
          /\ name_cursor' = name_cursor + 1
     ELSE UNCHANGED <<player_name, name_cursor>>
  /\ UNCHANGED <<globalVars, state, grid, tray, scoreVars, high_scores,
                 last_player_name, editing_name, dragVars, clearVars, returnVars,
                 bagVars, confirm_exit, settingVars, fileVars, call, games, steps,
                 session_best>>

\* ALLEGRO_KEY_BACKSPACE while the name is edited
KeyBackspace ==
  /\ state = STATE_GAMEOVER /\ editing_name
  /\ keys < MaxKeys /\ keys' = keys + 1
  /\ IF name_cursor > 0
     THEN /\ name_cursor' = name_cursor - 1
          /\ player_name' = SubSeq(player_name, 1, name_cursor - 1)
     ELSE UNCHANGED <<player_name, name_cursor>>
  /\ UNCHANGED <<globalVars, state, grid, tray, scoreVars, high_scores,
                 last_player_name, editing_name, dragVars, clearVars, returnVars,
                 bagVars, confirm_exit, settingVars, fileVars, call, games, steps,
                 session_best>>

\* a restart button that also answers while the name is being edited
GameoverRestartClicked_while_editing ==
  /\ state = STATE_GAMEOVER
  /\ state' = STATE_MENU
  /\ UNCHANGED <<globalVars, grid, tray, scoreVars, high_scores, nameVars,
                 dragVars, clearVars, returnVars, bagVars, confirm_exit,
                 settingVars, fileVars, call, budgetVars>>

\* click on the restart button of the game-over overlay
GameoverRestartClicked ==
  /\ state = STATE_GAMEOVER /\ ~editing_name
  /\ state' = STATE_MENU
  /\ UNCHANGED <<globalVars, grid, tray, scoreVars, high_scores, nameVars,
                 dragVars, clearVars, returnVars, bagVars, confirm_exit,
                 settingVars, fileVars, call, budgetVars>>

\* pointer motion, release, timer and the game-over inputs
Play ==
  \/ \E m \in MousePositions : MouseAxes(m)
  \/ MouseUp
  \/ Tick
  \/ GameoverOkClicked
  \/ KeyEnter
  \/ \E ch \in Letters : KeyLetter(ch)
  \/ KeyBackspace
  \/ GameoverRestartClicked

Init == InitWith({FilesNone})

Next ==
  \/ (games < PlayGames /\ StartEmpty)
  \/ (games < PlayGames /\ StartPartial)
  \/ \E i \in AllSlots : \E g \in CellsOf(SHAPE_MAX, SHAPE_MAX) :
       score < PlayScore /\ DragStart(i, g)
  \/ CycleTray
  \/ CycleGrid
  \/ Play
  \/ PlayExitClicked
  \/ ExitConfirmNo
  \/ KeyEscape
  \/ DisplayClose
  \/ HaltDrawing

Spec == Init /\ [][Next]_vars

\* several games in one run, the exit dialog never opened
SpecSession ==
  /\ InitWith({[scores |-> save_high_scores(<<Entry(GridSizeB, GridSizeB, 2, 300, 2, <<"A", "B">>),
                                              Entry(GridSizeB, GridSizeB, 1, 40, 1, PLAYR),
                                              Entry(GridSizeA, GridSizeA, 2, 2, 0, <<"A">>),
                                              Entry(GridSizeA, GridSizeA, 1, 1, 0, PLAYR),
                                              Entry(GridSizeB, GridSizeB, 2, 1, 0, <<"B">>)>>), legacy |-> Absent,
                name |-> save_player_name(<<"A">>)]})
  /\ [][\/ (games < SessionGames /\ StartEmpty)
        \/ (games < SessionGames /\ StartPartial)
        \/ \E i \in AllSlots : \E g \in CellsOf(SHAPE_MAX, SHAPE_MAX) :
             score < SessionScore /\ DragStart(i, g)
        \/ CycleTray
        \/ CycleGrid
        \/ Play]_vars

\* one game on a grid large enough for a completed line to leave other cells
\* behind, the settings file holding that size and a one-piece tray
FlashGrid == 3
FlashTray == 1
FlashScore == 2
InitFlash ==
  /\ InitGridOf(FlashGrid, FlashTray) /\ InitScore /\ InitTable({FilesNone})
  /\ InitRestOf(FlashGrid, FlashTray)

NextFlash ==
  \/ (games < PlayGames /\ StartPartial)
  \/ \E i \in AllSlots : \E g \in CellsOf(SHAPE_MAX, SHAPE_MAX) :
       score < FlashScore /\ DragStart(i, g)
  \/ \E m \in MousePositions : MouseAxes(m)
  \/ MouseUp
  \/ Tick

SpecFlash == InitFlash /\ [][NextFlash]_vars

\* the same game with the fullscreen key
SpecCancel ==
  /\ InitFlash
  /\ [][\/ NextFlash
        \/ KeyF11]_vars

(***************************************************************************)
(* Function-level specification of the grid engine: the calls are applied  *)
(* to every grid of side 1 .. PureGrid                                      *)
(***************************************************************************)
PureGrid == 3
\* dot, I2, V2, D\2, D/2, L2
GridShapes == {0, 4, 8, 20, 22, 24}
\* offsets, some of them negative and some past the last row and column
Offsets == (0 - 1)..PureGrid

\* a grid as Init, place_shape or apply_clear_mask left it: the queries are
\* made on these
FreshGrid == call.op \notin {"can_place_at", "build_clear_mask"}

\* all but grid and call
pureGridRest ==
  <<globalVars, state, tray, scoreVars, high_scores, nameVars, dragVars, clearVars,
    returnVars, bagVars, confirm_exit, settingVars, fileVars, budgetVars>>

\* blockblaster_can_place_at(&grid, &SHAPES[si], gx, gy)
CallCanPlaceAt(si, gx, gy) ==
  /\ FreshGrid
  /\ call' = [op |-> "can_place_at", si |-> si, gx |-> gx, gy |-> gy,
              result |-> can_place_at(GRID_W, GRID_H, grid, SHAPES[si], gx, gy)]
  /\ UNCHANGED <<grid, pureGridRest>>

\* blockblaster_build_clear_mask, then blockblaster_count_cells_in_mask on
\* its mask
CallBuildClearMask ==
  LET m == build_clear_mask(GRID_W, GRID_H, grid)
  IN  /\ FreshGrid
      /\ call' = [op |-> "build_clear_mask", lines |-> m.lines, mask |-> m.mask,
                  count |-> count_cells_in_mask(GRID_W, GRID_H, grid, m.mask)]
      /\ UNCHANGED <<grid, pureGridRest>>

\* blockblaster_place_shape where blockblaster_can_place_at allows it
CallPlaceShape(si, gx, gy) ==
  /\ FreshGrid
  /\ can_place_at(GRID_W, GRID_H, grid, SHAPES[si], gx, gy)
  /\ grid' = place_shape(GRID_W, GRID_H, grid, SHAPES[si], gx, gy)
  /\ call' = [op |-> "place_shape", si |-> si, gx |-> gx, gy |-> gy]
  /\ UNCHANGED pureGridRest

\* blockblaster_apply_clear_mask with the mask of the full lines
CallApplyClearMask ==
  LET m == build_clear_mask(GRID_W, GRID_H, grid)
  IN  /\ FreshGrid
      /\ m.lines > 0
      /\ grid' = apply_clear_mask(GRID_W, GRID_H, grid, m.mask)
      /\ call' = [op |-> "apply_clear_mask", lines |-> m.lines]
      /\ UNCHANGED pureGridRest

InitGridSpec ==
  /\ \E n \in 1..PureGrid :
       /\ GRID_W = n /\ GRID_H = n
       /\ grid \in SUBSET CellsOf(n, n)
  /\ PIECES_PER_SET = MaxTray
  /\ state = STATE_PLAY
  /\ tray = [i \in AllSlots |-> Piece(EmptyShape, FALSE)]
  /\ InitScore /\ InitTable({FilesNone}) /\ InitRest

SpecGrid ==
  /\ InitGridSpec
  /\ [][\/ \E si \in GridShapes : \E gx \in Offsets : \E gy \in Offsets :
             CallCanPlaceAt(si, gx, gy)
        \/ CallBuildClearMask
        \/ \E si \in GridShapes : \E gx \in Offsets : \E gy \in Offsets :
             CallPlaceShape(si, gx, gy)
        \/ CallApplyClearMask]_vars

(***************************************************************************)
(* Function-level specification of scoring: blockblaster_score_move is     *)
(* applied up to ScoreMoves times from the score state start_game leaves   *)
(***************************************************************************)
ScoreMoves == 8
\* blockblaster_score_move as blockblaster_try_drop calls it, with the
\* popup test try_drop makes on its result
CallScoreMove(in) ==
  LET sm == score_move(ScoreState, in[1], in[2], in[3])
  IN  /\ steps < ScoreMoves /\ steps' = steps + 1
      /\ score' = sm.gm.score /\ high_score' = sm.gm.high_score
      /\ combo' = sm.gm.combo /\ highest_combo' = sm.gm.highest_combo
      /\ last_move_mult' = sm.gm.last_move_mult /\ combo_miss' = sm.gm.combo_miss
      /\ call' = [op |-> "score_move", placed |-> in[1], lines |-> in[2],
                  cleared |-> in[3], gained |-> sm.gained_total, mult |-> sm.mult,
                  clear_gain |-> sm.clear_gain,
                  popup |-> combo_popup_due(last_move_mult, in[2], sm.mult),
                  run |-> IF in[2] > 0 THEN 0
                          ELSE IF call.op = "score_move" THEN call.run + 1 ELSE 1]
      /\ UNCHANGED <<globalVars, state, grid, tray, high_scores, nameVars, dragVars,
                     clearVars, returnVars, bagVars, confirm_exit, settingVars,
                     fileVars, games, keys>>
      /\ session_best' = IF sm.gm.score > session_best THEN sm.gm.score
                         ELSE session_best

InitScoreSpec ==
  /\ InitGrid /\ InitTable({FilesNone}) /\ InitRest
  /\ score = 0 /\ combo = 0 /\ highest_combo = 0 /\ last_move_mult = 1
  /\ combo_miss = 0

\* the moves are <<placed_cells, lines_cleared, cleared_cells>>: no line; one
\* row of a 10x10 grid completed by a 3-cell piece; an I5 that completes one
\* row and five columns of a 10x10 grid
SpecScore ==
  /\ InitScoreSpec
  /\ [][\E in \in {<<1, 0, 0>>, <<3, 1, 10>>, <<5, 6, 55>>} : CallScoreMove(in)]_vars

(***************************************************************************)
(* Function-level specification of the table: blockblaster_insert_high_score *)
(* is applied up to TableInserts times from the empty table                *)
(***************************************************************************)
TableInserts == 6

\* the n-th insert carries n as its combo, which tells equal scores apart
CallInsert(sc) ==
  LET ins == insert_high_score(high_scores, high_score, sc, steps + 1, PLAYR)
  IN  /\ steps < TableInserts /\ steps' = steps + 1
      /\ high_scores' = ins.high_scores
      /\ high_score' = ins.high_score
      /\ call' = [op |-> "insert", all |-> (IF call.op = "insert" THEN call.all ELSE <<>>)
                                            \o <<sc>>]
      /\ UNCHANGED <<globalVars, state, grid, tray, score, combo, highest_combo,
                     last_move_mult, combo_miss, nameVars, dragVars, clearVars,
                     returnVars, bagVars, confirm_exit, settingVars, fileVars,
                     games, keys, session_best>>

SpecTable ==
  /\ InitWith({FilesNone})
  /\ [][\E sc \in {1, 10, 50, 200, 300, 999} : CallInsert(sc)]_vars

(***************************************************************************)
(* Function-level specification of the persisted high-score table: tables  *)
(* are saved, the written file is damaged or left alone, and read back     *)
(***************************************************************************)
\* entries to build tables from: grid sizes 10, 15, 20, tray counts 1..4,
\* names of 1 to 5 letters, scores from 0 up
\* the tables of n entries in descending score order, as insert_high_score
\* keeps them
FileTablesOf(n) ==
  {t \in [1..n -> {Entry(20, 20, 4, 100, 12, <<"A", "B", "C", "A", "B">>), Entry(10, 10, 1, 7, 2, <<"A">>), Entry(15, 15, 3, 7, 0, PLAYR), Entry(10, 10, 2, 0, 0, <<"B", "C">>)}] :
     \A i \in 1..(n - 1) : t[i].score >= t[i + 1].score}
FileTables == UNION {FileTablesOf(n) : n \in 0..MAX_HIGH_SCORES}
\* legacy single-score files: none, "score combo", "score" alone, no number
LegacyScores == {<<120, 3>>, <<7, 0>>}
\* blockblaster_save_high_scores on the table in memory
CallSave ==
  /\ call.op = "init"
  /\ scores_file' = save_high_scores(high_scores)
  /\ call' = [op |-> "save", table |-> high_scores]
  /\ UNCHANGED <<high_scores, high_score, globalVars, state, grid, tray, score,
                 combo, highest_combo, last_move_mult, combo_miss, nameVars,
                 dragVars, clearVars, returnVars, bagVars, confirm_exit,
                 settingVars, legacy_file, name_file, budgetVars>>

\* the written file edited by hand: the six fields of entry line k replaced
CallDamage(k, junk) ==
  /\ call.op = "save" /\ k \in 1..Len(call.table)
  /\ scores_file' = File(SubSeq(scores_file.toks, 1, 1 + 6 * (k - 1)) \o junk
                         \o SubSeq(scores_file.toks, 2 + 6 * k, Len(scores_file.toks)))
  /\ call' = [op |-> "damage", table |-> call.table, k |-> k]
  /\ UNCHANGED <<high_scores, high_score, globalVars, state, grid, tray, score,
                 combo, highest_combo, last_move_mult, combo_miss, nameVars,
                 dragVars, clearVars, returnVars, bagVars, confirm_exit,
                 settingVars, legacy_file, name_file, budgetVars>>

\* blockblaster_load_high_scores
CallLoad ==
  /\ call.op \in {"init", "save", "damage"}
  /\ high_scores' = load_high_scores(scores_file, legacy_file).high_scores
  /\ high_score' = load_high_scores(scores_file, legacy_file).high_score
  /\ call' = [op |-> "load", prev |-> call]
  /\ UNCHANGED <<scores_file, globalVars, state, grid, tray, score, combo,
                 highest_combo, last_move_mult, combo_miss, nameVars, dragVars,
                 clearVars, returnVars, bagVars, confirm_exit, settingVars,
                 legacy_file, name_file, budgetVars>>

InitFileSpec ==
  /\ InitGrid /\ InitScore /\ InitRest
  /\ high_scores \in FileTables
  /\ high_score = (IF Len(high_scores) > 0 THEN high_scores[1].score ELSE 0)
  /\ scores_file = Absent /\ name_file = Absent
  /\ legacy_file \in ({Absent, File(<<FormatInt(45)>>), File(<<<<"x">>>>)}
                       \cup {File(<<FormatInt(l[1]), FormatInt(l[2])>>) : l \in LegacyScores})
  /\ last_player_name = PLAYR /\ player_name = PLAYR
  /\ editing_name = FALSE /\ name_cursor = 0

\* a damaged entry line holds no number, or one number and no second
SpecFile ==
  /\ InitFileSpec
  /\ [][\/ CallSave
        \/ \E k \in 1..MAX_HIGH_SCORES : \E junk \in {<<<<"x">>>>, <<FormatInt(12), <<"x">>>>} : CallDamage(k, junk)
        \/ CallLoad]_vars

(***************************************************************************)
(* The shape bag on its own: draws from the zeroed bag of a new context    *)
(***************************************************************************)
BagDraws == 7

\* the bag array: all zero in the zero-initialised GameContext
BagOf(c) == IF c.op = "init" THEN [i \in 1..BAG_SIZE |-> 0] ELSE c.bag

CallDraw ==
  /\ steps < BagDraws
  /\ \E r \in bag_next_shape_index([bag |-> BagOf(call), len |-> bag_len, pos |-> bag_pos]) :
       /\ bag_len' = r.len /\ bag_pos' = r.pos
       /\ call' = [op |-> "draw", bag |-> r.bag, value |-> r.value,
                   refilled |-> r.refilled, picks |-> r.picks]
  /\ steps' = steps + 1
  /\ UNCHANGED <<globalVars, state, grid, tray, scoreVars, high_scores, nameVars, dragVars,
              clearVars, returnVars, confirm_exit, settingVars, fileVars, games, keys,
              session_best>>

SpecBag ==
  /\ Init
  /\ [][CallDraw]_vars

(***************************************************************************)
(* The settings record on its own: written, or damaged, then loaded        *)
(***************************************************************************)
StoredTrays == -1..6
StoredGrids == {-10, 0, 5, 10, 12, 15, 20, 25}
\* settings files that fscanf cannot read two numbers from
BadSettings ==
  {Absent, File(<<>>), File(<<<<"x">>>>), File(<<FormatInt(3)>>),
   File(<<FormatInt(3), <<"x">>>>), File(<<<<"x">>, FormatInt(15)>>)}

CallSaveSettings(tc, gs) ==
  /\ call.op = "init"
  /\ call' = [op |-> "save_settings", tc |-> tc, gs |-> gs, file |-> save_settings(tc, gs)]
  /\ UNCHANGED <<settingVars, globalVars, state, grid, tray, scoreVars,
                 high_scores, nameVars, dragVars, clearVars, returnVars,
                 bagVars, confirm_exit, fileVars, budgetVars>>

CallLoadSettings(f) ==
  /\ call.op \in {"init", "save_settings"}
  /\ (IF call.op = "save_settings" THEN f = call.file ELSE f \in BadSettings)
  /\ setting_tray_count' = load_settings(f).tray_count
  /\ setting_grid_size' = load_settings(f).grid_size
  /\ call' = [op |-> "load_settings", file |-> f, prev |-> call]
  /\ UNCHANGED <<globalVars, state, grid, tray, scoreVars, high_scores,
                 nameVars, dragVars, clearVars, returnVars, bagVars,
                 confirm_exit, fileVars, budgetVars>>

SpecSettings ==
  /\ Init
  /\ [][\/ \E tc \in StoredTrays : \E gs \in StoredGrids : CallSaveSettings(tc, gs)
        \/ \E f \in BadSettings \cup {save_settings(tc, gs) : tc \in StoredTrays, gs \in StoredGrids} :
             CallLoadSettings(f)]_vars

(***************************************************************************)
(* The tray refill on its own: a new context dealt any shapes of SHAPES    *)
(***************************************************************************)
CallRefillTray(si) ==
  /\ call.op = "init"
  /\ tray' = refill_tray(tray, PIECES_PER_SET, si)
  /\ bag_len' = BagAfter(bag_len, bag_pos, PIECES_PER_SET).len
  /\ bag_pos' = BagAfter(bag_len, bag_pos, PIECES_PER_SET).pos
  /\ call' = [op |-> "refill_tray", si |-> si]
  /\ UNCHANGED <<globalVars, state, grid, scoreVars, high_scores, nameVars, dragVars,
              clearVars, returnVars, confirm_exit, settingVars, fileVars, budgetVars>>

SpecTray ==
  /\ Init
  /\ [][\E si \in [0..(MaxTray - 1) -> 0..(SHAPES_COUNT - 1)] : CallRefillTray(si)]_vars

(***************************************************************************)
(* Function-level specification of the weighted pick: weighted_shape_index *)
(* is applied to a score and to the number blockblaster_frand hands it. *)
(* The weights are kept exact as whole multiples of                        *)
(* 1 / (WeightOne * (SHAPES_COUNT - 1) * DifficultySteps); a roll between  *)
(* two such multiples compares with every partial sum as the lower one.    *)
(***************************************************************************)
DIFFICULTY_MAX_SCORE == 75000
\* MIN_DIFFICULTY_WEIGHT = 0.01, in units of 1 / WeightOne
WeightOne == 100
MIN_DIFFICULTY_WEIGHT == 1
\* the scores of the pick are multiples of DIFFICULTY_MAX_SCORE / DifficultySteps
DifficultySteps == 4

\* weights[i] of weighted_shape_index (SHAPES_COUNT > 1), t being the
\* clamped score ratio in units of 1 / DifficultySteps
shape_weight(sc, i) ==
  LET D == SHAPES_COUNT - 1
      t == Min(Max(sc, 0), DIFFICULTY_MAX_SCORE)
             \div (DIFFICULTY_MAX_SCORE \div DifficultySteps)
  IN  MIN_DIFFICULTY_WEIGHT * D * DifficultySteps
        + (WeightOne - MIN_DIFFICULTY_WEIGHT)
            * ((D - i) * (DifficultySteps - t) + i * t)

\* a pick loop that also stops at a partial sum equal to the roll
RECURSIVE weighted_pick_from_le(_, _, _, _)
weighted_pick_from_le(sc, r, i, acc) ==
  IF i >= SHAPES_COUNT THEN SHAPES_COUNT - 1
  ELSE IF r <= acc + shape_weight(sc, i) THEN i
  ELSE weighted_pick_from_le(sc, r, i + 1, acc + shape_weight(sc, i))
\* the second loop of weighted_shape_index, from index i with acc summed so far
RECURSIVE weighted_pick_from(_, _, _, _)
weighted_pick_from(sc, r, i, acc) ==
  IF i >= SHAPES_COUNT THEN SHAPES_COUNT - 1
  ELSE IF r < acc + shape_weight(sc, i) THEN i
  ELSE weighted_pick_from(sc, r, i + 1, acc + shape_weight(sc, i))

\* the rolls tried for a score: both ends of the range of blockblaster_frand
\* and, for every index, the partial sum up to it and the value just below
RECURSIVE PickRollsFrom(_, _, _)
PickRollsFrom(sc, i, acc) ==
  IF i >= SHAPES_COUNT THEN {0, acc}
  ELSE {acc + shape_weight(sc, i) - 1, acc + shape_weight(sc, i)}
         \cup PickRollsFrom(sc, i + 1, acc + shape_weight(sc, i))

CallWeightedPick(s, r) ==
  /\ call.op = "init"
  /\ call' = [op |-> "weighted_shape_index", score |-> s, r |-> r,
              value |-> weighted_pick_from(s, r, 0, 0)]
  /\ UNCHANGED <<globalVars, state, grid, tray, scoreVars, high_scores, nameVars,
                 dragVars, clearVars, returnVars, bagVars, confirm_exit,
                 settingVars, fileVars, budgetVars>>

SpecPick ==
  /\ Init
  /\ [][\E s \in {k * (DIFFICULTY_MAX_SCORE \div DifficultySteps) : k \in 0..(DifficultySteps + 1)} : \E r \in PickRollsFrom(s, 0, 0) : CallWeightedPick(s, r)]_vars

(***************************************************************************)
(* Function-level specification of the two effect pools: spawn requests,   *)
(* the particle burst of a clear, and entries ending their life.  The      *)
(* pools are carried in call; tag stands for what a spawn writes into the  *)
(* slot it takes (position, velocity, life, colour, points).               *)
(***************************************************************************)
\* slots of gm->particles and gm->bonus_popups
MAX_PARTICLES == 3
MAX_BONUS_POPUPS == 2
PARTICLES_PER_CLEARED_CELL == 15
PARTICLES_CAP_PER_CLEAR == 500
PoolSteps == 4

\* the pools as blockblaster_start_game leaves them
ParticlesOf(c) == IF c.op = "init" THEN [i \in 1..MAX_PARTICLES |-> [alive |-> FALSE, tag |-> 0]] ELSE c.particles
PopupsOf(c) == IF c.op = "init" THEN [i \in 1..MAX_BONUS_POPUPS |-> [alive |-> FALSE, tag |-> 0]] ELSE c.popups
FreeSlots(pool) == {i \in DOMAIN pool : ~pool[i].alive}

\* a spawn that takes the first slot when none is free
RECURSIVE spawn_particles_scaled_recycle(_, _, _)
spawn_particles_scaled_recycle(ps, count, tag) ==
  IF count <= 0 THEN ps
  ELSE LET idx == IF FreeSlots(ps) = {} THEN 1
                  ELSE CHOOSE i \in FreeSlots(ps) : \A j \in FreeSlots(ps) : i <= j
       IN  spawn_particles_scaled_recycle(
             [ps EXCEPT ![idx] = [alive |-> TRUE, tag |-> tag]], count - 1, tag)
\* blockblaster_spawn_particles_scaled
RECURSIVE spawn_particles_scaled(_, _, _)
spawn_particles_scaled(ps, count, tag) ==
  IF count <= 0 THEN ps
  ELSE IF FreeSlots(ps) = {} THEN ps
  ELSE LET idx == CHOOSE i \in FreeSlots(ps) : \A j \in FreeSlots(ps) : i <= j
       IN  spawn_particles_scaled(
             [ps EXCEPT ![idx] = [alive |-> TRUE, tag |-> tag]], count - 1, tag)

\* blockblaster_spawn_bonus_popup
spawn_bonus_popup(bp, tag) ==
  IF FreeSlots(bp) = {} THEN bp
  ELSE LET idx == CHOOSE i \in FreeSlots(bp) : \A j \in FreeSlots(bp) : i <= j
       IN  [bp EXCEPT ![idx] = [alive |-> TRUE, tag |-> tag]]

\* the per-cell particle loop of blockblaster_try_drop over the cells still
\* to visit, st holding the pool and the count requested so far
RECURSIVE clear_particles(_, _, _)
clear_particles(st, cells, tag) ==
  LET n == IF st.spawned + PARTICLES_PER_CLEARED_CELL > PARTICLES_CAP_PER_CLEAR
           THEN PARTICLES_CAP_PER_CLEAR - st.spawned
           ELSE PARTICLES_PER_CLEARED_CELL
  IN  IF cells = 0 \/ n <= 0 THEN st
      ELSE clear_particles(
             [particles |-> spawn_particles_scaled(st.particles, n, tag),
              spawned |-> st.spawned + n], cells - 1, tag)

CallSpawnParticles(count) ==
  /\ steps < PoolSteps /\ steps' = steps + 1
  /\ call' = [op |-> "spawn_particles", count |-> count,
              particles |-> spawn_particles_scaled(ParticlesOf(call), count, steps'),
              popups |-> PopupsOf(call)]
  /\ UNCHANGED <<globalVars, state, grid, tray, scoreVars, high_scores, nameVars,
                 dragVars, clearVars, returnVars, bagVars, confirm_exit,
                 settingVars, fileVars, games, keys, session_best>>

CallSpawnBonusPopup ==
  /\ steps < PoolSteps /\ steps' = steps + 1
  /\ call' = [op |-> "spawn_bonus_popup", particles |-> ParticlesOf(call),
              popups |-> spawn_bonus_popup(PopupsOf(call), steps')]
  /\ UNCHANGED <<globalVars, state, grid, tray, scoreVars, high_scores, nameVars,
                 dragVars, clearVars, returnVars, bagVars, confirm_exit,
                 settingVars, fileVars, games, keys, session_best>>

\* the particle loop of a drop that cleared the given number of cells
CallClearParticles(cells) ==
  /\ steps < PoolSteps /\ steps' = steps + 1
  /\ LET b == clear_particles([particles |-> ParticlesOf(call), spawned |-> 0],
                              cells, steps')
     IN  call' = [op |-> "clear_particles", cells |-> cells,
                  spawned |-> b.spawned, particles |-> b.particles,
                  popups |-> PopupsOf(call)]
  /\ UNCHANGED <<globalVars, state, grid, tray, scoreVars, high_scores, nameVars,
                 dragVars, clearVars, returnVars, bagVars, confirm_exit,
                 settingVars, fileVars, games, keys, session_best>>

\* the timer handler ends the life of particle i
CallParticleDies(i) ==
  /\ steps < PoolSteps /\ steps' = steps + 1
  /\ ParticlesOf(call)[i].alive
  /\ call' = [op |-> "particle_dies",
              particles |-> [ParticlesOf(call) EXCEPT ![i].alive = FALSE],
              popups |-> PopupsOf(call)]
  /\ UNCHANGED <<globalVars, state, grid, tray, scoreVars, high_scores, nameVars,
                 dragVars, clearVars, returnVars, bagVars, confirm_exit,
                 settingVars, fileVars, games, keys, session_best>>

\* the timer handler ends the life of bonus popup i
CallPopupDies(i) ==
  /\ steps < PoolSteps /\ steps' = steps + 1
  /\ PopupsOf(call)[i].alive
  /\ call' = [op |-> "popup_dies", particles |-> ParticlesOf(call),
              popups |-> [PopupsOf(call) EXCEPT ![i].alive = FALSE]]
  /\ UNCHANGED <<globalVars, state, grid, tray, scoreVars, high_scores, nameVars,
                 dragVars, clearVars, returnVars, bagVars, confirm_exit,
                 settingVars, fileVars, games, keys, session_best>>

\* cells cleared by one drop: one cell, the last count below the cap, the
\* count that reaches it, and one beyond
SpecPool ==
  /\ Init
  /\ [][\/ \E count \in 0..(MAX_PARTICLES + 1) : CallSpawnParticles(count)
        \/ CallSpawnBonusPopup
        \/ \E cells \in {1, PARTICLES_CAP_PER_CLEAR \div PARTICLES_PER_CLEARED_CELL,
                         PARTICLES_CAP_PER_CLEAR \div PARTICLES_PER_CLEARED_CELL + 1,
                         PARTICLES_CAP_PER_CLEAR \div PARTICLES_PER_CLEARED_CELL + 2} : CallClearParticles(cells)
        \/ \E i \in 1..MAX_PARTICLES : CallParticleDies(i)
        \/ \E i \in 1..MAX_BONUS_POPUPS : CallPopupDies(i)]_vars

(***************************************************************************)
(* Properties                                                              *)
(***************************************************************************)
\* C1: can_place_at(grid, shape, gx, gy) is true exactly when every filled
\* cell of the shape, shifted by (gx, gy), lies inside the grid and on an
\* unoccupied cell -- also for negative offsets and offsets past the last row
\* or column -- and the call leaves the grid and every other field as they were.
C1_CanPlaceAt ==
  /\ [](call.op = "can_place_at" =>
         (call.result <=>
            \A c \in SHAPES[call.si].cells :
              /\ call.gx + c[1] >= 0 /\ call.gx + c[1] < GRID_W
              /\ call.gy + c[2] >= 0 /\ call.gy + c[2] < GRID_H
              /\ <<call.gx + c[1], call.gy + c[2]>> \notin grid))
  /\ [][call'.op = "can_place_at" => UNCHANGED <<grid, pureGridRest>>]_vars

\* C1 happens: I2 asked for at column -1 of the empty grid of side PureGrid is
\* refused although its second cell would fall on the free cell <<0, 0>>
C1_Witness ==
  /\ call.op = "can_place_at" /\ call.si = 4 /\ call.gx = -1 /\ call.gy = 0
  /\ grid = {} /\ GRID_W = PureGrid
  /\ ~call.result

C4_CanMove ==
  \E i \in 0..(PIECES_PER_SET - 1) :
    /\ ~tray[i].used
    /\ \E gx \in (0 - SHAPE_MAX)..GRID_W, gy \in (0 - SHAPE_MAX)..GRID_H :
         \A c \in tray[i].shape.cells :
           /\ gx + c[1] \in 0..(GRID_W - 1) /\ gy + c[2] \in 0..(GRID_H - 1)
           /\ <<gx + c[1], gy + c[2]>> \notin grid

\* C4: the game-over check runs at start_game, after every non-clearing drop
\* (after any tray refill) and when a clear animation finishes, and sets
\* GAMEOVER exactly when no unused tray piece has a valid placement anywhere on
\* the grid; so whenever state = PLAY and clearing = false, at least one unused
\* tray piece can be placed.
C4_GameOverCheck ==
  /\ []((state = STATE_PLAY /\ ~clearing) => C4_CanMove)
  /\ [][(state # STATE_GAMEOVER /\ state' = STATE_GAMEOVER) => ~C4_CanMove']_vars
  /\ [][games' = games + 1 =>
          (state' = IF C4_CanMove' THEN STATE_PLAY ELSE STATE_GAMEOVER)]_vars
  /\ [][(games' = games /\ state = STATE_PLAY /\ grid' # grid /\ grid \subseteq grid'
         /\ ~clearing') =>
          (state' = IF C4_CanMove' THEN STATE_PLAY ELSE STATE_GAMEOVER)]_vars
  /\ [][(games' = games /\ state = STATE_PLAY /\ clearing /\ ~clearing') =>
          (state' = IF C4_CanMove' THEN STATE_PLAY ELSE STATE_GAMEOVER)]_vars
\* a drop that used up the tray: the refilled tray has no piece that fits
C4_Witness ==
  /\ state = STATE_GAMEOVER /\ call.op = "place" /\ call.kind # "clear"
  /\ \A i \in 0..(PIECES_PER_SET - 1) : ~tray[i].used
  /\ ~C4_CanMove

\* C5: a drop that completes lines starts the clear-flash timer at
\* CLEAR_FLASH_TIME (0.22 s = 330/1500 s); with the tick of 1/30 s the grid
\* stays as it is and every flagged cell stays occupied for the next 6 ticks;
\* the 7th tick clears exactly the flagged cells, ends clearing and runs the
\* game-over check. No cell leaves the grid at any other moment during play.
C5_ClearFlash ==
  /\ [][(~clearing /\ clearing') =>
          /\ clear_t' * 100 = 22 * 1500
          /\ pending_clear' \cap Cells # {} /\ flash_ticks' = 0
          /\ pending_clear' \cap Cells \subseteq grid']_vars
  /\ [](clearing => (flash_ticks <= 6 /\ pending_clear \cap Cells \subseteq grid))
  /\ [][(clearing /\ flash_ticks' = flash_ticks + 1 /\ flash_ticks < 6) =>
          (clearing' /\ grid' = grid /\ pending_clear' = pending_clear)]_vars
  /\ [][(clearing /\ clearing') => grid' = grid]_vars
  /\ [][(clearing /\ flash_ticks = 6 /\ flash_ticks' = 7) =>
          /\ grid' = grid \ pending_clear
          /\ ~clearing'
          /\ state = STATE_PLAY =>
               (state' = IF C4_CanMove' THEN STATE_PLAY ELSE STATE_GAMEOVER)]_vars
  /\ [][(state = STATE_PLAY /\ ~(grid \subseteq grid')) =>
          (clearing /\ flash_ticks = 6 /\ flash_ticks' = 7)]_vars
\* the 7th tick after a drop completed one line of the 3x3 grid: the cell
\* outside the line is still there
C5_Witness ==
  /\ call.op = "place" /\ call.kind = "clear" /\ call.lines = 1
  /\ ~clearing /\ flash_ticks = 7 /\ clear_t = 0
  /\ GRID_W = FlashGrid /\ Cardinality(grid) = 1

\* C6: build_clear_mask returns line_count = (number of completely occupied
\* rows) + (number of completely occupied columns), and flags a cell exactly
\* when its row or its column is full; a cell where a full row and a full
\* column cross is flagged once while both lines are counted (2 full rows and
\* 1 full column give line_count = 3), and count_cells_in_mask counts each
\* occupied flagged cell once.
C6_ClearMask ==
  call.op = "build_clear_mask" =>
    LET R == {y \in 0..(GRID_H - 1) : \A x \in 0..(GRID_W - 1) : <<x, y>> \in grid}
        C == {x \in 0..(GRID_W - 1) : \A y \in 0..(GRID_H - 1) : <<x, y>> \in grid}
    IN  /\ call.lines = Cardinality(R) + Cardinality(C)
        /\ \A x \in 0..(GRID_W - 1), y \in 0..(GRID_H - 1) :
             <<x, y>> \in call.mask <=> (y \in R \/ x \in C)
        /\ call.mask \subseteq grid
        /\ call.count = Cardinality(call.mask)
        /\ call.count = Cardinality(R) * GRID_W + Cardinality(C) * GRID_H
                        - Cardinality(R) * Cardinality(C)
        /\ (Cardinality(R) = 2 /\ Cardinality(C) = 1) => call.lines = 3
\* rows 0 and 1 and column 0 of the 3x3 grid are full
C6_Witness ==
  /\ call.op = "build_clear_mask" /\ GRID_W = 3 /\ GRID_H = 3
  /\ grid = {<<0, 0>>, <<1, 0>>, <<2, 0>>, <<0, 1>>, <<1, 1>>, <<2, 1>>, <<0, 2>>}
  /\ call.lines = 3 /\ call.count = 7

\* C7: between one start_game and the next, score never decreases: every
\* successful placement raises it by at least the number of cells placed, and
\* every other event (an invalid drop, a tick, the end of a clear, game over)
\* leaves it as it was.
C7_ScoreMonotone ==
  /\ [][games' = games => score' >= score]_vars
  /\ [][(games' = games /\ grid' # grid /\ grid \subseteq grid') =>
          score' >= score + Cardinality(grid' \ grid)]_vars
  /\ [][(games' = games /\ ~(grid' # grid /\ grid \subseteq grid')) =>
          score' = score]_vars
\* game over after a drop that cleared nothing, the score being what the
\* placed cells and an earlier clear brought
C7_Witness ==
  /\ state = STATE_GAMEOVER /\ call.op = "place" /\ call.kind # "clear"
  /\ call.gained = call.placed /\ score > call.placed + 10

\* the score of the first entry of the persisted table, 0 without one: the
\* file holds the count, then per entry the grid width, the grid height, the
\* tray count, the score, the highest combo and the name
C8_PersistedTop ==
  IF scores_file.exists /\ Len(scores_file.toks) >= 5
  THEN NatOf(scores_file.toks[5], 1, Len(scores_file.toks[5]))
  ELSE 0

\* C8: in every reachable state high_score >= score, and high_score is the
\* maximum of the persisted top entry's score and the highest score reached in
\* the session -- also after the table is re-loaded and the new entry inserted
\* on name confirmation, whether or not the score makes the top 5.
C8_HighScore ==
  /\ high_score >= score
  /\ high_score = (IF C8_PersistedTop >= session_best THEN C8_PersistedTop
                   ELSE session_best)
\* the second game's score entered the table below the first game's, which
\* had become its first entry
C8_Witness ==
  /\ call.op = "confirm" /\ ~editing_name /\ state = STATE_GAMEOVER
  /\ score = 2 /\ high_scores[4].score = 2 /\ high_scores[5].score = 2
  /\ session_best = 331 /\ high_score = 331 /\ high_scores[1].score = 331

\* how many of the scores inserted so far equal v, and how many exceed it
C9_Inserted(v) == Cardinality({k \in 1..Len(call.all) : call.all[k] = v})
C9_InsertedAbove(v) == Cardinality({k \in 1..Len(call.all) : call.all[k] > v})
C9_InTable(v) == Cardinality({i \in 1..Len(high_scores) : high_scores[i].score = v})

\* C9: after any sequence of insert_high_score calls on an empty table, the
\* table is sorted by descending score, holds at most 5 entries, and holds the
\* 5 largest scores inserted: a new score goes before the first strictly
\* smaller entry, the lowest entry is dropped when the table is full, and a
\* score not greater than any of 5 entries is discarded. Inserting 50, 200,
\* 10, 999, 300, 1 yields 999, 300, 200, 50, 10.
C9_InsertSorted ==
  /\ [](call.op = "insert" =>
         /\ Len(high_scores) <= 5
         /\ Len(high_scores) = (IF Len(call.all) < 5 THEN Len(call.all) ELSE 5)
         /\ \A i, j \in 1..Len(high_scores) :
              i < j => high_scores[i].score >= high_scores[j].score
         /\ \A v \in {call.all[k] : k \in 1..Len(call.all)} :
              C9_InTable(v) =
                (IF C9_InsertedAbove(v) >= 5 THEN 0
                 ELSE IF C9_Inserted(v) < 5 - C9_InsertedAbove(v)
                      THEN C9_Inserted(v) ELSE 5 - C9_InsertedAbove(v))
         /\ call.all = <<50, 200, 10, 999, 300, 1>> =>
              [i \in 1..Len(high_scores) |-> high_scores[i].score]
                = <<999, 300, 200, 50, 10>>)
  /\ [][call'.op = "insert" /\ steps' = steps + 1 =>
          LET sc == call'.all[Len(call'.all)]
              first == {i \in 1..Len(high_scores) : high_scores[i].score < sc}
              n == Len(high_scores)
          IN  IF first = {}
              THEN IF n >= 5 THEN high_scores' = high_scores
                   ELSE /\ Len(high_scores') = n + 1
                        /\ SubSeq(high_scores', 1, n) = high_scores
                        /\ high_scores'[n + 1].score = sc
              ELSE \E p \in first :
                     /\ \A q \in first : p <= q
                     /\ Len(high_scores') = (IF n < 5 THEN n + 1 ELSE 5)
                     /\ high_scores'[p].score = sc
                     /\ high_scores'[p].highest_combo = steps + 1
                     /\ \A i \in 1..(p - 1) : high_scores'[i] = high_scores[i]
                     /\ \A i \in (p + 1)..Len(high_scores') :
                          high_scores'[i] = high_scores[i - 1]]_vars
C9_Witness ==
  /\ call.op = "insert" /\ call.all = <<50, 200, 10, 999, 300, 1>>
  /\ Len(high_scores) = 5 /\ high_scores[1].score = 999 /\ high_scores[5].score = 10

\* the entry a confirmation inserts: the score and highest combo of the game,
\* the confirmed name, the grid and tray sizes of the session
C10_Name == IF player_name = <<>> THEN <<"P", "L", "A", "Y", "R">> ELSE player_name
C10_Entry ==
  [grid_w |-> GRID_W, grid_h |-> GRID_H, tray_count |-> PIECES_PER_SET,
   score |-> score, highest_combo |-> highest_combo, name |-> C10_Name]
\* table t with entry e put before its first entry of a strictly smaller
\* score, cut to 5 entries
C10_Inserted(t, e) ==
  LET k == Cardinality({i \in 1..Len(t) : t[i].score >= e.score})
      all == SubSeq(t, 1, k) \o <<e>> \o SubSeq(t, k + 1, Len(t))
  IN  SubSeq(all, 1, IF Len(all) < 5 THEN Len(all) ELSE 5)

\* C10: name confirmation (OK click or Enter while editing_name) re-loads the
\* persisted table, inserts the entry (score, highest_combo, confirmed name,
\* grid width, grid height, tray count) in sorted position, persists the
\* table, persists the confirmed name as last_player_name and closes the
\* editor; an empty name becomes PLAYR. It happens at most once per game over:
\* after it, further OK or Enter events insert nothing.
C10_ConfirmName ==
  /\ [][(state = STATE_GAMEOVER /\ editing_name /\ ~editing_name') =>
          /\ call'.op = "confirm" /\ call'.loaded = high_scores
          /\ high_scores' = C10_Inserted(call'.loaded, C10_Entry)
          /\ load_high_scores(scores_file', legacy_file').high_scores = high_scores'
          /\ player_name' = C10_Name /\ last_player_name' = C10_Name
          /\ load_player_name(name_file') = C10_Name
          /\ state' = STATE_GAMEOVER]_vars
  /\ [][(~editing_name /\ editing_name') =>
          (state # STATE_GAMEOVER /\ state' = STATE_GAMEOVER)]_vars
  /\ [][(high_scores' # high_scores \/ scores_file' # scores_file
         \/ name_file' # name_file \/ last_player_name' # last_player_name) =>
          (state = STATE_GAMEOVER /\ editing_name /\ ~editing_name')]_vars
\* the name field was emptied before the confirmation of a score of 331
C10_Witness ==
  /\ call.op = "confirm" /\ state = STATE_GAMEOVER /\ ~editing_name
  /\ keys = 1 /\ name_cursor = 0 /\ player_name = PLAYR /\ last_player_name = PLAYR
  /\ score = 331 /\ high_scores[1].score = 331 /\ high_scores[1].name = PLAYR

\* C11: every transition into GAMEOVER -- after a drop, after a clear
\* animation finishes, or inside start_game when no starting piece fits --
\* leaves the name editor open (editing_name = TRUE) with the name field
\* pre-filled with the last-used name (or PLAYR), and leaves the high-score
\* table as it is until the player confirms the name.
C11_EditorOpenOnGameOver ==
  [][(state # STATE_GAMEOVER /\ state' = STATE_GAMEOVER) =>
       /\ editing_name'
       /\ player_name' = (IF last_player_name = <<>> THEN <<"P", "L", "A", "Y", "R">>
                          ELSE last_player_name)
       /\ high_scores' = high_scores /\ scores_file' = scores_file]_vars

\* C12: saving a high-score table (0 to 5 entries, non-negative scores, names
\* of 1 to 5 letters) with save_high_scores and reading it back with
\* load_high_scores gives the same (grid_w, grid_h, tray_count, score,
\* highest_combo, name) tuples in the same order, the same entry count, and
\* high_score equal to the first entry's score.
C12_RoundTrip ==
  (call.op = "load" /\ call.prev.op = "save") =>
    LET t == call.prev.table
    IN  /\ Len(high_scores) = Len(t)
        /\ \A i \in 1..Len(t) :
             /\ high_scores[i].grid_w = t[i].grid_w
             /\ high_scores[i].grid_h = t[i].grid_h
             /\ high_scores[i].tray_count = t[i].tray_count
             /\ high_scores[i].score = t[i].score
             /\ high_scores[i].highest_combo = t[i].highest_combo
             /\ high_scores[i].name = t[i].name
        /\ Len(t) > 0 => high_score = t[1].score
\* a full table with a five-letter name first and a zero score last
C12_Witness ==
  /\ call.op = "load" /\ call.prev.op = "save"
  /\ Len(high_scores) = 5 /\ high_scores[1].name = <<"A", "B", "C", "A", "B">>
  /\ high_scores[2].score = 7 /\ high_scores[5].score = 0 /\ high_score = 100

(***************************************************************************)
(* C13                                                                     *)
(***************************************************************************)
C13_Count(s, v) == Cardinality({i \in 1..Len(s) : s[i] = v})
C13_SameMultiset(s, t) ==
  /\ Len(s) = Len(t)
  /\ \A i \in 1..Len(s) : C13_Count(s, s[i]) = C13_Count(t, s[i])
C13_Bounds ==
  /\ 0 <= bag_pos /\ bag_pos <= bag_len /\ bag_len <= BAG_SIZE
  /\ call.op = "draw" => call.value \in 0..(SHAPES_COUNT - 1)
C13_Draw ==
  call'.op = "draw" =>
    IF bag_len = 0 \/ bag_pos = bag_len
    THEN /\ call'.refilled
         /\ bag_len' = BAG_SIZE /\ Len(call'.bag) = BAG_SIZE
         /\ C13_SameMultiset(call'.bag, call'.picks)
         /\ call'.value = call'.bag[1] /\ bag_pos' = 1
    ELSE /\ ~call'.refilled
         /\ call'.bag = BagOf(call) /\ bag_len' = bag_len
         /\ call'.value = call'.bag[bag_pos + 1] /\ bag_pos' = bag_pos + 1
\* C13: 0 <= bag_pos <= bag_len <= BAG_SIZE always and every drawn value is
\* an index of SHAPES; a draw with bag_len = 0 or bag_pos = bag_len refills
\* all BAG_SIZE slots with a permutation of the picks and returns the first
\* of them with the cursor at 1, any other draw returns the entry under the
\* cursor of the unchanged bag; so draws 2..BAG_SIZE of a new context do not
\* refill and draw BAG_SIZE + 1 does.
C13_BagInvariant ==
  /\ [](C13_Bounds
        /\ (call.op = "draw" => (call.refilled <=> steps \in {1, BAG_SIZE + 1, 2 * BAG_SIZE + 1})))
  /\ [][C13_Draw]_vars
\* the draw after BAG_SIZE draws has refilled the bag with a shuffled set of
\* distinct picks and returned its first entry
C13_Witness ==
  /\ call.op = "draw" /\ steps = BAG_SIZE + 1 /\ call.refilled /\ bag_pos = 1
  /\ call.picks = <<0, 20, SHAPES_COUNT - 1>> \o [i \in 1..(BAG_SIZE - 3) |-> 0]
  /\ call.bag # call.picks /\ call.value = 20

(***************************************************************************)
(* C14                                                                     *)
(***************************************************************************)
\* the loaded file was written with a tray count in 1..4 and a grid size of
\* 10, 15 or 20
C14_StoredValid ==
  /\ call.prev.op = "save_settings"
  /\ call.prev.tc \in 1..4 /\ call.prev.gs \in {10, 15, 20}
\* C14: load_settings returns the stored pair when the stored tray count is
\* in 1..4 and the stored grid size is 10, 15 or 20, and tray_count = 4 and
\* grid_size = 10 in every other case (file missing, unparseable, or either
\* stored value invalid); the returned pair is always in range.
C14_LoadSettings ==
  call.op = "load_settings" =>
    /\ setting_tray_count \in 1..4 /\ setting_grid_size \in {10, 15, 20}
    /\ IF C14_StoredValid
       THEN setting_tray_count = call.prev.tc /\ setting_grid_size = call.prev.gs
       ELSE setting_tray_count = 4 /\ setting_grid_size = 10

(***************************************************************************)
(* C15                                                                     *)
(***************************************************************************)
\* C15: with the scores file absent and the legacy file holding
\* "score highest_combo", load_high_scores leaves exactly one entry with
\* that score and combo, grid_w = grid_h = 10 and tray_count = 4, and
\* high_score equal to that score.
C15_LegacyFallback ==
  \A l \in LegacyScores :
    (/\ call.op = "load" /\ ~scores_file.exists
     /\ legacy_file = File(<<FormatInt(l[1]), FormatInt(l[2])>>)) =>
      /\ Len(high_scores) = 1
      /\ high_scores[1].score = l[1] /\ high_scores[1].highest_combo = l[2]
      /\ high_scores[1].grid_w = LEGACY_GRID /\ high_scores[1].grid_h = LEGACY_GRID
      /\ high_scores[1].tray_count = LEGACY_TRAY
      /\ high_score = l[1]

(***************************************************************************)
(* C16                                                                     *)
(***************************************************************************)
\* C16: when entry line k of the scores file cannot be parsed in either
\* format, load_high_scores leaves exactly the k - 1 entries before it:
\* the table has k - 1 entries, each as it was saved.
C16_StopAtBadLine ==
  (call.op = "load" /\ call.prev.op = "damage") =>
    /\ Len(high_scores) = call.prev.k - 1
    /\ \A i \in 1..(call.prev.k - 1) : high_scores[i] = call.prev.table[i]

(***************************************************************************)
(* C17                                                                     *)
(***************************************************************************)
C17_Filled(i) == Cardinality(SHAPES[i].cells)
\* C17: in SHAPES the number of filled cells is non-decreasing with the
\* index: a shape dealt from index si has no fewer filled cells than any
\* shape at a lower index and no more than any shape at a higher index, so
\* index 0 has the fewest and the last index the most.
C17_ShapesOrdered ==
  call.op = "refill_tray" =>
    \A k \in 0..(PIECES_PER_SET - 1) : \A j \in 0..(SHAPES_COUNT - 1) :
      /\ j < call.si[k] => C17_Filled(j) <= Cardinality(tray[k].shape.cells)
      /\ j > call.si[k] => C17_Filled(j) >= Cardinality(tray[k].shape.cells)

(***************************************************************************)
(* C18                                                                     *)
(***************************************************************************)
\* C18: after start_game and after a fullscreen toggle dragging = FALSE and
\* returning = FALSE, whatever their values before.
C18_CancelInFlight ==
  [][(games' = games + 1 \/ (call'.op = "toggle_fullscreen" /\ call' # call)) =>
       (~dragging' /\ ~returning')]_vars

(***************************************************************************)
(* C19                                                                     *)
(***************************************************************************)
\* a release of a held, unused piece whose drop preview is invalid
C19_Release ==
  /\ dragging /\ ~dragging' /\ ~clearing /\ ~can_drop_preview
  /\ ~tray[dragging_index].used
  /\ MouseUp
\* a timer tick during the return animation
C19_ReturnTick == returning /\ Tick
\* C19: releasing a held piece whose preview is invalid ends the drag and
\* starts the return of that slot (returning, return_index = the slot,
\* return_t = RETURN_TIME) and changes neither grid, tray, score, combo,
\* combo_miss, last_move_mult, bag nor game state; each tick then takes DT
\* off return_t until it reaches zero, where returning is FALSE and the piece,
\* unchanged and unused, is in a playing game that accepts a drag again.
C19_InvalidDrop ==
  /\ [][C19_Release =>
          /\ returning' /\ return_index' = dragging_index /\ return_t' = RETURN_TIME
          /\ UNCHANGED <<grid, tray, score, combo, combo_miss, last_move_mult,
                         bagVars, state>>]_vars
  /\ [][C19_ReturnTick =>
          /\ IF return_t - DT <= 0 THEN ~returning' /\ return_t' = 0
             ELSE returning' /\ return_t' = return_t - DT
          /\ tray' = tray /\ ~tray[return_index].used
          /\ state' = STATE_PLAY /\ ~clearing' /\ ~dragging']_vars
  /\ [](returning => (return_t > 0 /\ return_t <= RETURN_TIME))
\* a piece that came back to the tray is held again, over an occupied cell
\* where its preview is invalid
C19_Witness ==
  /\ dragging /\ dragging_index = return_index /\ ~returning /\ return_t = 0
  /\ mouse.in /\ <<mouse.gx, mouse.gy>> \in grid /\ ~can_drop_preview

(***************************************************************************)
(* C20                                                                     *)
(***************************************************************************)
\* a release that stamps the held piece onto the grid
C20_Placed == MouseUp /\ dragging /\ ~dragging' /\ grid' # grid
\* the held piece fits at the preview cell on the grid as it is
C20_Fits ==
  can_place_at(GRID_W, GRID_H, grid, tray[dragging_index].shape,
               preview_cell[1], preview_cell[2])
\* the cells the held piece covers at the preview cell
C20_Stamp ==
  {<<preview_cell[1] + c[1], preview_cell[2] + c[2]>> :
     c \in FilledCells(tray[dragging_index].shape)}
\* C20: try_drop stamps a piece only where can_place_at holds for it at the
\* preview cell on the current grid: the cells stamped are free cells of the
\* grid and nothing else changes on it; and whenever a held, unused piece
\* has can_drop_preview set in a playing game, can_place_at holds for it at
\* the preview cell on the grid as it is.
C20_PlacePrecondition ==
  /\ [][C20_Placed =>
          /\ C20_Fits
          /\ C20_Stamp \subseteq Cells /\ C20_Stamp \cap grid = {}
          /\ grid' = grid \cup C20_Stamp]_vars
  /\ []((state = STATE_PLAY /\ dragging /\ can_drop_preview /\ ~tray[dragging_index].used)
          => C20_Fits)
\* a piece has been stamped next to an occupied cell at a preview cell that
\* is no longer the cell under the pointer
C20_Witness ==
  /\ call.op = "place" /\ ~dragging /\ clearing
  /\ Cardinality(grid) > call.placed
  /\ (~mouse.in \/ <<mouse.gx - grab[1], mouse.gy - grab[2]>> # preview_cell)

(***************************************************************************)
(* C21                                                                     *)
(***************************************************************************)
C21_Count(b) == IF b THEN 1 ELSE 0
\* C21: at most one of dragging, returning, clearing and editing_name is
\* true in every state; a drag starts only with no clear flash and no return
\* running; a clear flash, a return or the name entry starts only with the
\* drag ended; and while the clear flash runs no release changes grid, tray
\* or score and no drag starts.
C21_OneAtATime ==
  /\ [](C21_Count(dragging) + C21_Count(returning) + C21_Count(clearing)
          + C21_Count(editing_name) <= 1)
  /\ [][(~dragging /\ dragging') => (~clearing /\ ~returning)]_vars
  /\ [][((~clearing /\ clearing') \/ (~returning /\ returning')
          \/ (~editing_name /\ editing_name')) => ~dragging']_vars
  /\ [][clearing =>
          (~(~dragging /\ dragging')
           /\ grid' \subseteq grid /\ tray' = tray /\ score' = score)]_vars
\* a clear flash is running after a drop, the drag over
C21_Witness == clearing /\ ~dragging /\ call.op = "place" /\ clear_t < CLEAR_FLASH_TIME

(***************************************************************************)
(* C22                                                                     *)
(***************************************************************************)
C22_FullRows == {y \in Rows(GRID_H) : is_row_full(GRID_W, grid, y)}
C22_FullCols == {x \in Cols(GRID_W) : is_col_full(GRID_H, grid, x)}
\* C22: with no clear flash running the grid has no completely occupied row
\* and no completely occupied column; during a clear flash pending_clear
\* flags exactly the cells of the rows and columns that are full.
C22_NoFullLine ==
  IF clearing
  THEN pending_clear \cap Cells =
         {c \in Cells : c[2] \in C22_FullRows \/ c[1] \in C22_FullCols}
  ELSE C22_FullRows = {} /\ C22_FullCols = {}
\* a game on the larger grid right after a partial start that left two cells
\* on the grid, no flash running
C22_Witness ==
  /\ ~clearing /\ state = STATE_PLAY /\ GRID_W = GridSizeB
  /\ Cardinality(grid) = 2 /\ call.op = "start_game"

C24_Stamped ==
  grid \cup {c \in Cells : \E f \in FilledCells(tray[dragging_index].shape) :
                             c = <<preview_cell[1] + f[1], preview_cell[2] + f[2]>>}
\* the predicted flags of the rows and columns of the grid
C24_PredRows == pred_full_row \cap Rows(GRID_H)
C24_PredCols == pred_full_col \cap Cols(GRID_W)
\* the flags are those of the lines full after the stamp
C24_Exact ==
  /\ C24_PredRows = {y \in Rows(GRID_H) : is_row_full(GRID_W, C24_Stamped, y)}
  /\ C24_PredCols = {x \in Cols(GRID_W) : is_col_full(GRID_H, C24_Stamped, x)}
\* C24: while a piece is held and its preview is valid, pred_full_row and
\* pred_full_col flag exactly the rows and columns that are full once the
\* piece is stamped at the preview cell; whenever no piece is held, the
\* pointer is off the grid or the preview is invalid, no flag is set.
C24_PredictedClear ==
  IF dragging /\ can_drop_preview /\ mouse.in
  THEN C24_Exact
  ELSE C24_PredRows = {} /\ C24_PredCols = {}

(***************************************************************************)
(* C25                                                                     *)
(***************************************************************************)
\* the step deals a new tray: start_game, or the drop of the last piece
C25_Deals ==
  \/ games' = games + 1
  \/ (MouseUp /\ grid' # grid /\ \A i \in Slots : i = dragging_index \/ tray[i].used)
C26_StateMachine ==
  /\ [][state' # state =>
          \/ /\ state = STATE_MENU /\ state' \in {STATE_PLAY, STATE_GAMEOVER}
             /\ games' = games + 1 /\ call'.op = "start_game"
          \/ /\ state = STATE_PLAY /\ state' = STATE_GAMEOVER
             /\ (MouseUp \/ Tick)
          \/ /\ state = STATE_GAMEOVER /\ state' = STATE_MENU
             /\ ~editing_name]_vars
  /\ [][(grid' # grid \/ tray' # tray \/ score' # score \/ combo' # combo) =>
          (state = STATE_PLAY \/ (state = STATE_MENU /\ games' = games + 1))]_vars
\* back in the menu after a game that was played to its end
C26_Witness ==
  state = STATE_MENU /\ games = 1 /\ score > 0

(***************************************************************************)
(* C27                                                                     *)
(***************************************************************************)
\* C27: while a piece is held the game is in PLAY, dragging_index is a slot
\* of the tray and that slot's piece is not used, so try_drop never finds
\* the held piece already used.
C27_DragValid ==
  dragging =>
    /\ state = STATE_PLAY
    /\ 0 <= dragging_index /\ dragging_index < PIECES_PER_SET
    /\ ~tray[dragging_index].used
\* the second piece of the tray is held after the first one was placed
C27_Witness ==
  /\ dragging /\ dragging_index = 1 /\ tray[0].used /\ call.op = "place"

(***************************************************************************)
(* C28                                                                     *)
(***************************************************************************)
\* C28: a move triggers the combo popup exactly when it cleared a line and
\* its multiplier is greater than last_move_mult was before the move; a move
\* that clears nothing triggers none, and neither does a clearing move made
\* with last_move_mult already at MAX_MULTIPLIER.
C28_ComboPopup ==
  [][(call'.op \in {"score_move", "place"} /\ call' # call) =>
       /\ call'.popup <=> (call'.lines > 0 /\ call'.mult > last_move_mult)
       /\ call'.lines = 0 => ~call'.popup
       /\ (call'.lines > 0 /\ last_move_mult = MAX_MULTIPLIER) => ~call'.popup]_vars
\* a clearing move made at the cap: the combo before it was already worth
\* MAX_MULTIPLIER, and no popup was triggered
C28_Witness ==
  /\ call.op = "score_move" /\ call.lines > 0 /\ ~call.popup
  /\ combo - call.lines >= MAX_MULTIPLIER - 1 /\ call.mult = MAX_MULTIPLIER

(***************************************************************************)
(* C29                                                                     *)
(***************************************************************************)
\* the sum of the weights of indices 0..i
RECURSIVE C29_Cum(_, _)
C29_Cum(sc, i) ==
  IF i < 0 THEN 0 ELSE shape_weight(sc, i) + C29_Cum(sc, i - 1)
C29_Exceeding(sc, r) == {i \in 0..(SHAPES_COUNT - 1) : C29_Cum(sc, i) > r}
\* C29: every weight is at least MIN_DIFFICULTY_WEIGHT, which is positive;
\* for a roll between 0 and the sum of the weights the pick is the smallest
\* index whose cumulative weight exceeds the roll, or the last index when no
\* cumulative weight does, which happens only for a roll equal to the sum;
\* the pick is an index of SHAPES.
C29_WeightedPick ==
  call.op = "weighted_shape_index" =>
    LET over == C29_Exceeding(call.score, call.r)
    IN  /\ \A i \in 0..(SHAPES_COUNT - 1) :
             /\ shape_weight(call.score, i)
                  >= MIN_DIFFICULTY_WEIGHT * (SHAPES_COUNT - 1) * DifficultySteps
             /\ shape_weight(call.score, i) > 0
        /\ MIN_DIFFICULTY_WEIGHT > 0
        /\ call.value \in 0..(SHAPES_COUNT - 1)
        /\ call.r >= 0 /\ call.r <= C29_Cum(call.score, SHAPES_COUNT - 1)
        /\ IF over # {}
           THEN call.value \in over /\ \A i \in over : call.value <= i
           ELSE /\ call.value = SHAPES_COUNT - 1
                /\ call.r = C29_Cum(call.score, SHAPES_COUNT - 1)
\* a roll equal to a partial sum at the first difficulty step above 0: the
\* pick is the index after the one whose cumulative weight the roll equals
C29_Witness ==
  /\ call.op = "weighted_shape_index"
  /\ call.score = DIFFICULTY_MAX_SCORE \div DifficultySteps
  /\ call.value = 21 /\ call.r = C29_Cum(call.score, 20)

(***************************************************************************)
(* C30                                                                     *)
(***************************************************************************)
C30_Alive(pool) == Cardinality(DOMAIN pool \ FreeSlots(pool))
\* every entry alive in pool a is the same in pool b
C30_Kept(a, b) == \A i \in DOMAIN a : a[i].alive => b[i] = a[i]
\* C30: a spawn never alters an entry that is alive; with no free slot it
\* changes nothing; a request for more particles than there are free slots
\* fills the free slots and no more; the particle loop of one clear requests,
\* and so spawns, at most PARTICLES_CAP_PER_CLEAR particles.
C30_PoolFull ==
  [][(steps' # steps /\ call'.op \in {"spawn_particles", "spawn_bonus_popup",
                                      "clear_particles"}) =>
       LET ps == ParticlesOf(call)
           bp == PopupsOf(call)
           free == Cardinality(FreeSlots(ps))
       IN  /\ C30_Kept(ps, call'.particles)
           /\ C30_Kept(bp, call'.popups)
           /\ (free = 0 => call'.particles = ps)
           /\ (FreeSlots(bp) = {} => call'.popups = bp)
           /\ call'.op = "spawn_particles" =>
                C30_Alive(call'.particles) = C30_Alive(ps) + Min(call'.count, free)
           /\ call'.op = "spawn_bonus_popup" =>
                C30_Alive(call'.popups) = C30_Alive(bp) + Min(1, Cardinality(FreeSlots(bp)))
           /\ call'.op = "clear_particles" =>
                /\ call'.spawned <= PARTICLES_CAP_PER_CLEAR
                /\ C30_Alive(call'.particles) - C30_Alive(ps) <= call'.spawned
                /\ (call'.cells * PARTICLES_PER_CLEARED_CELL <= PARTICLES_CAP_PER_CLEAR
                      => call'.spawned = call'.cells * PARTICLES_PER_CLEARED_CELL)]_vars
\* a request for more particles than the free slots was made on a pool that
\* had both live entries and a free slot: the pool is full, an entry of an
\* earlier spawn is still there
C30_Witness ==
  /\ call.op = "spawn_particles" /\ call.count > 1
  /\ FreeSlots(call.particles) = {}
  /\ \E i, j \in 1..MAX_PARTICLES :
       /\ call.particles[i].tag = steps /\ call.particles[j].tag < steps
       /\ call.particles[j].tag > 0
  /\ Cardinality({i \in 1..MAX_PARTICLES : call.particles[i].tag = steps}) < call.count
\* a burst of more cells than the cap allows was cut at the cap
C30_WitnessCap ==
  call.op = "clear_particles" /\ call.spawned = PARTICLES_CAP_PER_CLEAR
    /\ call.cells * PARTICLES_PER_CLEARED_CELL > PARTICLES_CAP_PER_CLEAR
====
